---------------------------- MODULE Spec2Model ----------------------------
(***************************************************************************)
(* The asynchronous job pipeline of ProfRater: the Next.js API routes      *)
(* POST /api/start-scrape and GET /api/check-job, the Redis job store,     *)
(* and the worker's POST /run-job handler.                                 *)
(*                                                                         *)
(* JavaScript objects are records whose domain is the set of fields that   *)
(* are present; JSON.stringify drops fields whose value is undefined, so   *)
(* an absent field and an undefined field are the same stored record.      *)
(* Strings typed by the user are sequences of characters; statuses,        *)
(* messages and field names are TLA+ strings.  ISO timestamps are the      *)
(* integer reading of the clock they are formatted from.                   *)
(***************************************************************************)
EXTENDS Integers, Sequences, FiniteSets, TLC

(***************************************************************************)
(* Bounds of the model.                                                    *)
(***************************************************************************)
MaxJobs == 2        \* job ids that randomUUID can hand out
MaxRuns == 2        \* /run-job requests the worker receives
MaxReviews == 1     \* length of the longest scraped review list
MaxClock == 1       \* last reading of the wall clock
MaxExtracted == 2   \* most review cards on an extracted page
MaxRatings == 41     \* largest number of ratings that a professor's page shows
MaxRequests == 2     \* /api/analyze requests received
MaxInflight == 2    \* check-job requests of the page that can be in flight at once

VARIABLES
    store,          \* Redis: job id -> stored Job (the parsed JSON value)
    issued,         \* number of job ids generated so far by start-scrape
    triggers,       \* fire-and-forget /run-job requests still in flight
    now,            \* the wall clock read by new Date()
    nruns,          \* /run-job requests received so far
    pc,             \* per /run-job request: where the handler is suspended
    jobId,          \* per /run-job request: req.body.jobId
    updatedJob,     \* per /run-job request: the local updatedJob
    scraperResult,  \* per /run-job request: the local scraperResult
    aiSummary,      \* per /run-job request: the local aiSummary
    completedJob,   \* per /run-job request: the local completedJob
    caught,         \* per /run-job request: message of the caught error
    errorJob,       \* per /run-job request: the local errorJob
    res,            \* per /run-job request: the HTTP response sent
    apiRes,         \* last response sent by the Next.js API routes
    scrapeCalls,    \* history: calls of scrapeProfessor per job id
    analyzeCalls,   \* history: calls of analyzeWithAI per job id
    mounted,        \* page: the component is mounted
    loadingState,   \* page: the React state loadingState
    errorMessage,   \* page: the React state errorMessage
    result,         \* page: the React state result
    abortControllerRef,   \* page: controller in the ref, by the job it polls (0: null)
    aborted,        \* page: controllers whose abort() was called
    pollingIntervalRef,   \* page: interval id in the ref, by job (0: null)
    timers,         \* page: intervals that are scheduled
    fetches,        \* page: its HTTP requests in flight
    seenTerminal,   \* history: jobs for which a poll read complete or error
    seenFailure,    \* history: jobs for which a poll got a non-OK response
    scraperPc,      \* scrapeProfessor: where the call is suspended
    scraperBuild,   \* scrapeProfessor: which build runs ("search" or "loadMore")
    stagehand,      \* scrapeProfessor: the local stagehand ("null" or "created")
    closeCalls,     \* history: calls of stagehand.close() in this call
    scraperError,   \* scrapeProfessor: the step whose exception was caught
    scrapeOutcome,  \* scrapeProfessor: the completion of the call (return or throw)
    pageData,       \* scrapeProfessor: the local pageData
    totalRatings,   \* scrapeProfessor: the local totalRatings
    maxClicks,      \* scrapeProfessor: the local maxClicks
    clickCount,     \* scrapeProfessor: the local clickCount
    attempts,       \* history: "Load More" click attempts of this call
    serverPc,       \* /api/analyze: where the handler is suspended
    reqBody,        \* /api/analyze: req.body
    filteredReviews,    \* /api/analyze: the local filteredReviews
    serverRes,      \* /api/analyze: the HTTP response sent
    requests,       \* number of /api/analyze requests received so far
    scraperCalled,  \* history: calls of scrapeProfessor by /api/analyze
    analyzerArgs,   \* history: review lists passed to analyzeWithAI by /api/analyze
    serverBuild,    \* /api/analyze: the build with the course filter, or without
    serverScraperResult  \* /api/analyze: the local scraperResult

display == <<loadingState, errorMessage, result>>

clientVars == <<mounted, display, abortControllerRef, aborted, pollingIntervalRef,
                timers, fetches, seenTerminal, seenFailure>>

scraperVars == <<scraperPc, scraperBuild, stagehand, closeCalls, scraperError,
                 scrapeOutcome, pageData, totalRatings, maxClicks, clickCount, attempts>>

serverVars == <<serverPc, reqBody, filteredReviews, serverRes, requests, scraperCalled,
                analyzerArgs, serverBuild, serverScraperResult>>

\* The scraper run on its own and the synchronous endpoint.
syncVars == <<scraperVars, serverVars>>

vars == <<store, issued, triggers, now, nruns, pc, jobId, updatedJob,
          scraperResult, aiSummary, completedJob, caught, errorJob, res,
          apiRes, scrapeCalls, analyzeCalls, clientVars, syncVars>>

apiVars == <<issued, apiRes>>

locals == <<updatedJob, scraperResult, aiSummary, completedJob, caught, errorJob>>

history == <<scrapeCalls, analyzeCalls>>

workerVars == <<nruns, pc, jobId, locals, res, history>>

\* Everything but the scraper run on its own and the synchronous endpoint.
pipelineVars == <<store, triggers, now, apiVars, clientVars, workerVars>>

JobIds == 1..MaxJobs
Runs == 1..MaxRuns

(***************************************************************************)
(* JavaScript values.                                                      *)
(***************************************************************************)
\* { ...obj, ...upd }: the fields of upd override those of obj.
Spread(obj, upd) ==
    [f \in DOMAIN obj \cup DOMAIN upd |->
        IF f \in DOMAIN upd THEN upd[f] ELSE obj[f]]

\* An object with the field `name` when opt = {v}, and without it when opt = {}.
Field(name, opt) ==
    [f \in {n \in {name} : opt # {}} |-> CHOOSE v \in opt : TRUE]

\* !x is false for a string exactly when the string is present and non-empty.
Truthy(obj, f) == f \in DOMAIN obj /\ obj[f] # <<>>

null == [null |-> TRUE]

\* No response has been sent yet.
NoResponse == [route |-> "none", status |-> 0]

(***************************************************************************)
(* Inputs.                                                                 *)
(***************************************************************************)
\* Request bodies of start-scrape: each way a required field can be missing or
\* empty, a whitespace-only name, and a full request with a question.
Bodies ==
    { [university |-> <<"T">>],
      [professorName |-> <<"J">>],
      [professorName |-> <<>>, university |-> <<"T">>],
      [professorName |-> <<"J">>, university |-> <<>>, userQuestion |-> <<"q">>],
      [professorName |-> <<" ">>, university |-> <<"T">>],
      [professorName |-> <<"J">>, university |-> <<"T">>, userQuestion |-> <<"q">>] }

Queries == {Field("id", i) : i \in {{}} \cup {{k} : k \in JobIds}}

RunBodies == {Field("jobId", i) : i \in {{}} \cup {{k} : k \in JobIds}}

\* A review as the scraper returns it, its optional fields defaulted.
Review ==
    [rating |-> 5, difficulty |-> 0, course |-> "Not specified", date |-> "Jan 1st",
     comment |-> "Great", tags |-> <<>>, thumbsUp |-> 0, thumbsDown |-> 0]

\* The review lists of up to n reviews, the empty one included.
ReviewLists(n) == {[i \in 1..k |-> Review] : k \in 0..n}

\* The page's aggregate; its rating count is that of the scraped list.
ProfessorInfo(reviews) ==
    [overallRating |-> 4, totalRatings |-> Len(reviews), wouldTakeAgainPercent |-> 0,
     difficultyRating |-> 0, department |-> "Not specified"]

ScraperResults ==
    {[reviews |-> r, professorInfo |-> ProfessorInfo(r)] : r \in ReviewLists(MaxReviews)}

\* x || d: the default also replaces an empty string and a zero.
WithDefault_Or(obj, f, d) ==
    IF f \notin DOMAIN obj THEN d
    ELSE IF f \in {"course", "department"} THEN (IF obj[f] = "" THEN d ELSE obj[f])
    ELSE IF f = "tags" THEN obj[f]
    ELSE (IF obj[f] = 0 THEN d ELSE obj[f])

\* x ?? d: the default replaces a field that the extraction omitted.
WithDefault(obj, f, d) == IF f \in DOMAIN obj THEN obj[f] ELSE d

\* Review cards as the extraction delivers them (ReviewSchema): rating, date
\* and comment always, the other fields when the card shows them.  A card
\* with every field, one with the required fields only, one whose optional
\* fields are present but empty or zero, and two with some of them.
ExtractedReviews ==
    { [rating |-> 4, difficulty |-> 3, course |-> "CS101", date |-> "Feb 2nd",
       comment |-> "Clear", tags |-> <<"Tough grader">>, thumbsUp |-> 2,
       thumbsDown |-> 1],
      [rating |-> 5, date |-> "Jan 1st", comment |-> "Great"],
      [rating |-> 1, difficulty |-> 0, course |-> "", date |-> "Mar 3rd",
       comment |-> "", tags |-> <<>>, thumbsUp |-> 0, thumbsDown |-> 0],
      [rating |-> 3, course |-> "MATH2", date |-> "Apr 4th", comment |-> "Fine",
       tags |-> <<"Caring">>],
      [rating |-> 2, difficulty |-> 5, date |-> "May 5th", comment |-> "Hard",
       thumbsUp |-> 0, thumbsDown |-> 3] }

\* The lists of up to n review cards, in page order.
ExtractedLists(n) ==
    UNION {[1..k -> ExtractedReviews] : k \in 0..n}

\* The extracted page (PageDataSchema): each optional aggregate omitted,
\* present but empty or zero, or present with a value.
ExtractedPages ==
    { [professorName |-> "J", overallRating |-> 4,
       totalRatings |-> Len(r), reviews |-> r]
        @@ Field("department", d)
        @@ Field("wouldTakeAgainPercent", t)
        @@ Field("difficultyRating", k) :
        r \in ExtractedLists(MaxExtracted),
        d \in {{}, {""}, {"Math"}},
        t \in {{}, {0}, {80}},
        k \in {{}, {0}, {3}} }

\* One element of reviews.map: the card with its optional fields defaulted.
ScrapeReview(review) ==
    [rating |-> review.rating,
     difficulty |-> WithDefault(review, "difficulty", 0),
     course |-> WithDefault(review, "course", "Not specified"),
     date |-> review.date,
     comment |-> review.comment,
     tags |-> WithDefault(review, "tags", <<>>),
     thumbsUp |-> WithDefault(review, "thumbsUp", 0),
     thumbsDown |-> WithDefault(review, "thumbsDown", 0)]

\* pageData.reviews.map: the cards in page order, each with its defaults.
RECURSIVE MapReviews(_)
MapReviews(cards) ==
    IF cards = <<>> THEN <<>>
    ELSE <<ScrapeReview(Head(cards))>> \o MapReviews(Tail(cards))

\* The value scrapeProfessor returns for an extracted page.
ScrapeResult(page) ==
    [professorInfo |->
        [overallRating |-> page.overallRating,
         totalRatings |-> page.totalRatings,
         wouldTakeAgainPercent |-> WithDefault(page, "wouldTakeAgainPercent", 0),
         difficultyRating |-> WithDefault(page, "difficultyRating", 0),
         department |-> WithDefault(page, "department", "Not specified")],
     reviews |-> MapReviews(page.reviews)]

\* What the scraper can return: its value for each extracted page.
ScrapedPages == {ScrapeResult(page) : page \in ExtractedPages}

Summaries == {"Good professor.", "Avoid."}

ScrapeError == "Failed to scrape professor data"
AnalyzeError == "Failed to analyze reviews with AI"
RedisError == "Connection is closed."

(***************************************************************************)
(* The job store (lib/redis.ts and the worker's ioredis client).           *)
(***************************************************************************)
\* client.set(jobId, JSON.stringify(job)): a whole-record overwrite.
setJob(s, id, job) ==
    [k \in DOMAIN s \cup {id} |-> IF k = id THEN job ELSE s[k]]

\* client.get(jobId), then JSON.parse, or null.
getJob(s, id) == IF id \in DOMAIN s THEN s[id] ELSE null

Bump(f, id) == [f EXCEPT ![id] = @ + 1]

(***************************************************************************)
(* POST /api/start-scrape                                                  *)
(***************************************************************************)
\* The check written as a test for undefined: an empty string passes.
ValidInput_PresenceOnly(body) ==
    "professorName" \in DOMAIN body /\ "university" \in DOMAIN body

ValidInput(body) == Truthy(body, "professorName") /\ Truthy(body, "university")

\* The record created with the status name of the worker's Job interface.
NewJob_Pending(body, t) ==
    Spread([status |-> "pending",
            professorName |-> body.professorName,
            university |-> body.university,
            createdAt |-> t],
           Field("userQuestion",
                 IF "userQuestion" \in DOMAIN body THEN {body.userQuestion} ELSE {}))

NewJob(body, t) ==
    Spread([status |-> "queued",
            professorName |-> body.professorName,
            university |-> body.university,
            createdAt |-> t],
           Field("userQuestion",
                 IF "userQuestion" \in DOMAIN body THEN {body.userQuestion} ELSE {}))

\* The route waiting for the worker's answer to the trigger before it
\* responds: an unacknowledged trigger becomes a 502.
StartScrape_AwaitsTrigger(body, storeOk) ==
    /\ IF ~ValidInput(body)
         THEN /\ apiRes' = [route |-> "start-scrape", status |-> 400]
              /\ UNCHANGED <<store, issued, triggers>>
         ELSE /\ issued < MaxJobs
              /\ issued' = issued + 1
              /\ IF storeOk
                   THEN /\ store' = setJob(store, issued + 1, NewJob(body, now))
                        /\ triggers' = triggers \cup {issued + 1}
                        /\ \E ack \in BOOLEAN :
                             apiRes' = IF ack
                                         THEN [route |-> "start-scrape", status |-> 201,
                                               jobId |-> issued + 1]
                                         ELSE [route |-> "start-scrape", status |-> 502]
                   ELSE /\ apiRes' = [route |-> "start-scrape", status |-> 500]
                        /\ UNCHANGED <<store, triggers>>
    /\ UNCHANGED now
    /\ UNCHANGED <<workerVars, syncVars>>

\* The route with an id derived from the request instead of randomUUID:
\* every submit stores under the same id.
StartScrape_SameId(body, storeOk) ==
    /\ IF ~ValidInput(body)
         THEN /\ apiRes' = [route |-> "start-scrape", status |-> 400]
              /\ UNCHANGED <<store, issued, triggers>>
         ELSE /\ issued < MaxJobs
              /\ issued' = issued + 1
              /\ IF storeOk
                   THEN /\ store' = setJob(store, 1, NewJob(body, now))
                        /\ triggers' = triggers \cup {1}
                        /\ apiRes' = [route |-> "start-scrape", status |-> 201,
                                      jobId |-> 1]
                   ELSE /\ apiRes' = [route |-> "start-scrape", status |-> 500]
                        /\ UNCHANGED <<store, triggers>>
    /\ UNCHANGED now
    /\ UNCHANGED <<workerVars, syncVars>>

\* The route with the rejection of setJob swallowed: the request goes on as
\* if the record had been written.
StartScrape_SwallowsWriteError(body, storeOk) ==
    /\ IF ~ValidInput(body)
         THEN /\ apiRes' = [route |-> "start-scrape", status |-> 400]
              /\ UNCHANGED <<store, issued, triggers>>
         ELSE /\ issued < MaxJobs
              /\ issued' = issued + 1
              /\ store' = IF storeOk THEN setJob(store, issued + 1, NewJob(body, now))
                                     ELSE store
              /\ triggers' = triggers \cup {issued + 1}
              /\ apiRes' = [route |-> "start-scrape", status |-> 201,
                            jobId |-> issued + 1]
    /\ UNCHANGED now
    /\ UNCHANGED <<workerVars, syncVars>>

\* The route with the trigger sent before the write is awaited: the trigger
\* leaves also when the write fails.
StartScrape_TriggerFirst(body, storeOk) ==
    /\ IF ~ValidInput(body)
         THEN /\ apiRes' = [route |-> "start-scrape", status |-> 400]
              /\ UNCHANGED <<store, issued, triggers>>
         ELSE /\ issued < MaxJobs
              /\ issued' = issued + 1
              /\ triggers' = triggers \cup {issued + 1}
              /\ IF storeOk
                   THEN /\ store' = setJob(store, issued + 1, NewJob(body, now))
                        /\ apiRes' = [route |-> "start-scrape", status |-> 201,
                                      jobId |-> issued + 1]
                   ELSE /\ apiRes' = [route |-> "start-scrape", status |-> 500]
                        /\ UNCHANGED store
    /\ UNCHANGED now
    /\ UNCHANGED <<workerVars, syncVars>>

StartScrape(body, storeOk) ==
    /\ IF ~ValidInput(body)
         THEN /\ apiRes' = [route |-> "start-scrape", status |-> 400]
              /\ UNCHANGED <<store, issued, triggers>>
         ELSE /\ issued < MaxJobs
              /\ issued' = issued + 1
              /\ IF storeOk
                   THEN /\ store' = setJob(store, issued + 1, NewJob(body, now))
                        /\ triggers' = triggers \cup {issued + 1}
                        /\ apiRes' = [route |-> "start-scrape", status |-> 201,
                                      jobId |-> issued + 1]
                   ELSE /\ apiRes' = [route |-> "start-scrape", status |-> 500]
                        /\ UNCHANGED <<store, triggers>>
    /\ UNCHANGED now
    /\ UNCHANGED <<workerVars, syncVars>>

(***************************************************************************)
(* GET /api/check-job                                                      *)
(***************************************************************************)
CheckJobResponse(id, job) == Spread([jobId |-> id], job)

\* The route without its `if (!job)` test: a missing job is answered 200
\* with the spread of null.
CheckJobOutcome_NoNullTest(s, query, storeOk) ==
    IF "id" \notin DOMAIN query
      THEN [route |-> "check-job", status |-> 400, storeRead |-> FALSE]
    ELSE IF ~storeOk
      THEN [route |-> "check-job", status |-> 500, storeRead |-> TRUE]
    ELSE IF getJob(s, query.id) = null
      THEN [route |-> "check-job", status |-> 200, storeRead |-> TRUE,
            job |-> [jobId |-> query.id]]
    ELSE [route |-> "check-job", status |-> 200, storeRead |-> TRUE,
          job |-> CheckJobResponse(query.id, getJob(s, query.id))]

\* getJob swallowing the Redis error and returning null: an outage reads as
\* a missing job.
CheckJobOutcome_ErrorAsNull(s, query, storeOk) ==
    IF "id" \notin DOMAIN query
      THEN [route |-> "check-job", status |-> 400, storeRead |-> FALSE]
    ELSE IF ~storeOk \/ getJob(s, query.id) = null
      THEN [route |-> "check-job", status |-> 404, storeRead |-> TRUE]
    ELSE [route |-> "check-job", status |-> 200, storeRead |-> TRUE,
          job |-> CheckJobResponse(query.id, getJob(s, query.id))]

\* The response of the route for a query, given whether Redis answers.
CheckJobOutcome(s, query, storeOk) ==
    IF "id" \notin DOMAIN query
      THEN [route |-> "check-job", status |-> 400, storeRead |-> FALSE]
    ELSE IF ~storeOk
      THEN [route |-> "check-job", status |-> 500, storeRead |-> TRUE]
    ELSE IF getJob(s, query.id) = null
      THEN [route |-> "check-job", status |-> 404, storeRead |-> TRUE]
    ELSE [route |-> "check-job", status |-> 200, storeRead |-> TRUE,
          job |-> CheckJobResponse(query.id, getJob(s, query.id))]

\* The route removing a finished job once it has been read (deleteJob).
CheckJob_DeletesFinished(query, storeOk) ==
    /\ apiRes' = CheckJobOutcome(store, query, storeOk)
    /\ store' = IF apiRes'.status = 200 /\ apiRes'.job.status \in {"complete", "error"}
                  THEN [k \in DOMAIN store \ {query.id} |-> store[k]]
                  ELSE store
    /\ UNCHANGED <<issued, triggers, now>>
    /\ UNCHANGED <<workerVars, syncVars>>

\* The previous response of the API was the 201 that issued this id.
JustSubmitted(id) ==
    apiRes.route = "start-scrape" /\ apiRes.status = 201 /\ apiRes.jobId = id

CheckJob(query, storeOk) ==
    /\ apiRes' = CheckJobOutcome(store, query, storeOk)
    /\ UNCHANGED <<store, issued, triggers, now>>
    /\ UNCHANGED <<workerVars, syncVars>>

(***************************************************************************)
(* The clock and the network.                                              *)
(***************************************************************************)
Tick ==
    /\ now < MaxClock
    /\ now' = now + 1
    /\ UNCHANGED <<store, triggers, apiVars, clientVars>>
    /\ UNCHANGED <<workerVars, syncVars>>

\* A sweeper that marks the job of an undelivered trigger as failed.
LoseTrigger_MarksError(id) ==
    /\ id \in triggers
    /\ triggers' = triggers \ {id}
    /\ store' = setJob(store, id,
                       Spread(store[id], [status |-> "error", error |-> "Worker unreachable"]))
    /\ UNCHANGED <<now, apiVars, clientVars>>
    /\ UNCHANGED <<workerVars, syncVars>>

\* The fetch of start-scrape never reaches the worker; its .catch only logs.
LoseTrigger(id) ==
    /\ id \in triggers
    /\ triggers' = triggers \ {id}
    /\ UNCHANGED <<store, now, apiVars, clientVars>>
    /\ UNCHANGED <<workerVars, syncVars>>

(***************************************************************************)
(* POST /run-job (the worker).  Each action is the code between two        *)
(* awaits of one request; w is the request.                                *)
(***************************************************************************)
\* The running record stamped as if it were created by the claim.
UpdatedJob_Restamp(job, t) ==
    Spread(job, [status |-> "running", createdAt |-> t, updatedAt |-> t])

UpdatedJob(job, t) == Spread(job, [status |-> "running", updatedAt |-> t])

\* The spread written last: the fields of updatedJob override the new ones.
CompletedJob_SpreadLast(updated, scraped, summary, t) ==
    Spread([status |-> "complete",
            result |-> [reviews |-> scraped.reviews,
                        professorInfo |-> scraped.professorInfo,
                        aiSummary |-> summary],
            updatedAt |-> t],
           updated)

CompletedJob(updated, scraped, summary, t) ==
    Spread(updated,
           [status |-> "complete",
            result |-> [reviews |-> scraped.reviews,
                        professorInfo |-> scraped.professorInfo,
                        aiSummary |-> summary],
            updatedAt |-> t])

\* The error record with a fixed text in place of the exception's message.
ErrorJob_Generic(job, message, t) ==
    Spread(job, [status |-> "error", error |-> "Job failed", updatedAt |-> t])

\* The error record stamped with the creation time of the job.
ErrorJob_StampsCreation(job, message, t) ==
    Spread(job, [status |-> "error", error |-> message, updatedAt |-> job.createdAt])

ErrorJob(job, message, t) ==
    Spread(job, [status |-> "error", error |-> message, updatedAt |-> t])

\* The handler is entered: the 400 of a missing jobId, or the first redis.get
\* is issued.
Receive(body) ==
    /\ nruns < MaxRuns
    /\ nruns' = nruns + 1
    /\ IF "jobId" \notin DOMAIN body
         THEN /\ pc' = [pc EXCEPT ![nruns + 1] = "done"]
              /\ res' = [res EXCEPT ![nruns + 1] =
                            [status |-> 400, success |-> FALSE]]
              /\ UNCHANGED jobId
         ELSE /\ pc' = [pc EXCEPT ![nruns + 1] = "load"]
              /\ jobId' = [jobId EXCEPT ![nruns + 1] = body.jobId]
              /\ UNCHANGED res
    /\ UNCHANGED <<store, now, apiVars, clientVars, syncVars, locals, history>>

\* The request sent by start-scrape arrives.
DeliverTrigger(id) ==
    /\ id \in triggers
    /\ triggers' = triggers \ {id}
    /\ Receive([jobId |-> id])

\* Any other POST /run-job: a duplicate, a retry, a manual call.
RunJobRequest(body) ==
    /\ UNCHANGED triggers
    /\ Receive(body)

\* Control leaves the try block: its locals go out of scope.
Throw(w, message) ==
    /\ pc' = [pc EXCEPT ![w] = "catch"]
    /\ caught' = [caught EXCEPT ![w] = message]
    /\ updatedJob' = [updatedJob EXCEPT ![w] = null]
    /\ scraperResult' = [scraperResult EXCEPT ![w] = null]
    /\ aiSummary' = [aiSummary EXCEPT ![w] = ""]
    /\ completedJob' = [completedJob EXCEPT ![w] = null]
    /\ UNCHANGED <<errorJob, res>>

\* The handler returns: all its locals go out of scope.
Respond(w, response) ==
    /\ pc' = [pc EXCEPT ![w] = "done"]
    /\ res' = [res EXCEPT ![w] = response]
    /\ updatedJob' = [updatedJob EXCEPT ![w] = null]
    /\ scraperResult' = [scraperResult EXCEPT ![w] = null]
    /\ aiSummary' = [aiSummary EXCEPT ![w] = ""]
    /\ completedJob' = [completedJob EXCEPT ![w] = null]
    /\ caught' = [caught EXCEPT ![w] = ""]
    /\ errorJob' = [errorJob EXCEPT ![w] = null]

Failure(w) ==
    [status |-> 500, success |-> FALSE, message |-> caught[w], jobId |-> jobId[w]]

\* STEP 1 throwing on a missing job, so that the catch block answers it.
Load_MissingThrows(w, storeOk) ==
    /\ pc[w] = "load"
    /\ IF ~storeOk
         THEN Throw(w, RedisError)
         ELSE IF getJob(store, jobId[w]) = null
         THEN Throw(w, "Job not found")
         ELSE /\ updatedJob' = [updatedJob EXCEPT ![w] =
                                   UpdatedJob(getJob(store, jobId[w]), now)]
              /\ pc' = [pc EXCEPT ![w] = "claim"]
              /\ UNCHANGED <<scraperResult, aiSummary, completedJob, caught,
                             errorJob, res>>
    /\ UNCHANGED <<store, triggers, now, apiVars, clientVars, syncVars, nruns, jobId, history>>

\* STEP 1: redis.get resolves; updatedJob is built.
Load(w, storeOk) ==
    /\ pc[w] = "load"
    /\ IF ~storeOk
         THEN Throw(w, RedisError)
         ELSE IF getJob(store, jobId[w]) = null
         THEN Respond(w, [status |-> 404, success |-> FALSE])
         ELSE /\ updatedJob' = [updatedJob EXCEPT ![w] =
                                   UpdatedJob(getJob(store, jobId[w]), now)]
              /\ pc' = [pc EXCEPT ![w] = "claim"]
              /\ UNCHANGED <<scraperResult, aiSummary, completedJob, caught,
                             errorJob, res>>
    /\ UNCHANGED <<store, triggers, now, apiVars, clientVars, syncVars, nruns, jobId, history>>

\* STEP 2 as a conditional claim: only a queued job is taken, any other
\* status is answered 409 without a write.
Claim_IfQueued(w, storeOk) ==
    /\ pc[w] = "claim"
    /\ IF ~storeOk
         THEN /\ Throw(w, RedisError)
              /\ UNCHANGED <<store, scrapeCalls>>
         ELSE IF store[jobId[w]].status # "queued"
         THEN /\ Respond(w, [status |-> 409, success |-> FALSE])
              /\ UNCHANGED <<store, scrapeCalls>>
         ELSE /\ store' = setJob(store, jobId[w], updatedJob[w])
              /\ pc' = [pc EXCEPT ![w] = "scrape"]
              /\ scrapeCalls' = Bump(scrapeCalls, jobId[w])
              /\ UNCHANGED <<locals, res>>
    /\ UNCHANGED <<triggers, now, apiVars, clientVars, syncVars, nruns, jobId, analyzeCalls>>

\* STEP 2 with the scrape started before the write is awaited: the scraper
\* is called also when the write fails.
Claim_CallsFirst(w, storeOk) ==
    /\ pc[w] = "claim"
    /\ scrapeCalls' = Bump(scrapeCalls, jobId[w])
    /\ IF ~storeOk
         THEN /\ Throw(w, RedisError)
              /\ UNCHANGED store
         ELSE /\ store' = setJob(store, jobId[w], updatedJob[w])
              /\ pc' = [pc EXCEPT ![w] = "scrape"]
              /\ UNCHANGED <<locals, res>>
    /\ UNCHANGED <<triggers, now, apiVars, clientVars, syncVars, nruns, jobId, analyzeCalls>>

\* STEP 2: redis.set of updatedJob resolves; scrapeProfessor is called.
Claim(w, storeOk) ==
    /\ pc[w] = "claim"
    /\ IF ~storeOk
         THEN /\ Throw(w, RedisError)
              /\ UNCHANGED <<store, scrapeCalls>>
         ELSE /\ store' = setJob(store, jobId[w], updatedJob[w])
              /\ pc' = [pc EXCEPT ![w] = "scrape"]
              /\ scrapeCalls' = Bump(scrapeCalls, jobId[w])
              /\ UNCHANGED <<locals, res>>
    /\ UNCHANGED <<triggers, now, apiVars, clientVars, syncVars, nruns, jobId, analyzeCalls>>

\* STEP 3: scrapeProfessor returns; analyzeWithAI is called.
ScrapeReturns(w, scraped) ==
    /\ pc[w] = "scrape"
    /\ scraperResult' = [scraperResult EXCEPT ![w] = scraped]
    /\ pc' = [pc EXCEPT ![w] = "analyze"]
    /\ analyzeCalls' = Bump(analyzeCalls, jobId[w])
    /\ UNCHANGED <<store, triggers, now, apiVars, clientVars, syncVars, nruns, jobId,
                   updatedJob,
                   aiSummary, completedJob, caught, errorJob, res, scrapeCalls>>

\* A failed scrape retried from the claim step.
ScrapeThrows_Retry(w) ==
    /\ pc[w] = "scrape"
    /\ pc' = [pc EXCEPT ![w] = "claim"]
    /\ UNCHANGED <<locals, res>>
    /\ UNCHANGED <<store, triggers, now, apiVars, clientVars, syncVars, nruns, jobId, history>>

ScrapeThrows(w) ==
    /\ pc[w] = "scrape"
    /\ Throw(w, ScrapeError)
    /\ UNCHANGED <<store, triggers, now, apiVars, clientVars, syncVars, nruns, jobId, history>>

\* STEP 4: analyzeWithAI returns; completedJob is built.
AnalyzeReturns(w, summary) ==
    /\ pc[w] = "analyze"
    /\ aiSummary' = [aiSummary EXCEPT ![w] = summary]
    /\ completedJob' = [completedJob EXCEPT ![w] =
          CompletedJob(updatedJob[w], scraperResult[w], summary, now)]
    /\ pc' = [pc EXCEPT ![w] = "commit"]
    /\ UNCHANGED <<store, triggers, now, apiVars, clientVars, syncVars, nruns, jobId,
                   updatedJob,
                   scraperResult, caught, errorJob, res, history>>

AnalyzeThrows(w) ==
    /\ pc[w] = "analyze"
    /\ Throw(w, AnalyzeError)
    /\ UNCHANGED <<store, triggers, now, apiVars, clientVars, syncVars, nruns, jobId, history>>

\* STEP 5 answering before its write is settled: the 200 is sent whether or
\* not the store accepts the record.
Commit_AnswersFirst(w, storeOk) ==
    /\ pc[w] = "commit"
    /\ IF ~storeOk
         THEN UNCHANGED store
         ELSE store' = setJob(store, jobId[w], completedJob[w])
    /\ Respond(w, [status |-> 200, success |-> TRUE,
                   reviewCount |-> Len(scraperResult[w].reviews)])
    /\ UNCHANGED <<triggers, now, apiVars, clientVars, syncVars, nruns, jobId, history>>

\* STEP 5: redis.set of completedJob resolves; the 200 is sent.
Commit(w, storeOk) ==
    /\ pc[w] = "commit"
    /\ IF ~storeOk
         THEN /\ Throw(w, RedisError)
              /\ UNCHANGED store
         ELSE /\ store' = setJob(store, jobId[w], completedJob[w])
              /\ Respond(w, [status |-> 200, success |-> TRUE,
                             reviewCount |-> Len(scraperResult[w].reviews)])
    /\ UNCHANGED <<triggers, now, apiVars, clientVars, syncVars, nruns, jobId, history>>

\* A catch block that only answers: nothing is read and nothing is stored.
CatchLoad_AnswersOnly(w, storeOk) ==
    /\ pc[w] = "catch"
    /\ Respond(w, Failure(w))
    /\ UNCHANGED <<store, triggers, now, apiVars, clientVars, syncVars, nruns, jobId, history>>

\* catch: redis.get resolves; errorJob is built from the record just read.
CatchLoad(w, storeOk) ==
    /\ pc[w] = "catch"
    /\ IF storeOk /\ getJob(store, jobId[w]) # null
         THEN /\ errorJob' = [errorJob EXCEPT ![w] =
                                 ErrorJob(getJob(store, jobId[w]), caught[w], now)]
              /\ pc' = [pc EXCEPT ![w] = "catchSet"]
              /\ UNCHANGED <<updatedJob, scraperResult, aiSummary, completedJob,
                             caught, res>>
         ELSE Respond(w, Failure(w))
    /\ UNCHANGED <<store, triggers, now, apiVars, clientVars, syncVars, nruns, jobId, history>>

\* catch without the inner try: a failed write of errorJob escapes the
\* handler and no response is sent.
CatchSet_Escapes(w, storeOk) ==
    /\ pc[w] = "catchSet"
    /\ IF storeOk
         THEN /\ store' = setJob(store, jobId[w], errorJob[w])
              /\ Respond(w, Failure(w))
         ELSE /\ UNCHANGED store
              /\ Respond(w, NoResponse)
    /\ UNCHANGED <<triggers, now, apiVars, clientVars, syncVars, nruns, jobId, history>>

\* catch: redis.set of errorJob resolves or fails; the 500 is sent.
CatchSet(w, storeOk) ==
    /\ pc[w] = "catchSet"
    /\ IF storeOk
         THEN store' = setJob(store, jobId[w], errorJob[w])
         ELSE UNCHANGED store
    /\ Respond(w, Failure(w))
    /\ UNCHANGED <<triggers, now, apiVars, clientVars, syncVars, nruns, jobId, history>>

(***************************************************************************)
(* The page (the polling client).  A controller, an interval and a poll    *)
(* are named by the job that pollJobStatus was called with.  Each fetch is *)
(* sent, answered by the route, and delivered to its continuation, in      *)
(* three steps; the requests of one page can be answered and delivered in  *)
(* any order.                                                              *)
(***************************************************************************)
\* What the form can send: both inputs are `required`, and an empty
\* question is sent as undefined.
FormInputs ==
    { [professorName |-> <<" ">>, university |-> <<"T">>],
      [professorName |-> <<"J">>, university |-> <<"T">>, userQuestion |-> <<"q">>] }

SubmitFetch(form) == [kind |-> "submit", body |-> form, res |-> NoResponse]

PollFetch(id, first) == [kind |-> "poll", session |-> id, first |-> first, res |-> NoResponse]

Answered(f) == f.res.route # "none"

PollsInFlight == {f \in fetches : f.kind = "poll"}

\* data.error of a non-OK answer of start-scrape.
SubmitError(response) ==
    IF response.status = 400 THEN "professorName and university are required"
                             ELSE "Internal server error"

\* clearInterval(pollingIntervalRef.current).
ClearInterval(ts) == ts \ {pollingIntervalRef}

\* poll with a timeout: a job still queued ends the polling.
StopsPolling_OnQueued(response) ==
    \/ response.status # 200
    \/ response.job.status \in {"complete", "error", "queued"}

\* The branches of poll that call clearInterval.
StopsPolling(response) ==
    \/ response.status # 200
    \/ response.job.status \in {"complete", "error"}

\* The state setters of poll for a response: the new loadingState,
\* errorMessage and result.
Shown(response) ==
    IF response.status # 200
      THEN <<"error", "Failed to check job status", result>>
    ELSE IF response.job.status = "queued"
      THEN <<"creating", errorMessage, result>>
    ELSE IF response.job.status = "running"
      THEN <<"scraping", errorMessage, result>>
    ELSE IF response.job.status = "complete"
      THEN <<"complete", errorMessage,
             IF "result" \in DOMAIN response.job THEN response.job.result ELSE null>>
    ELSE IF response.job.status = "error"
      THEN <<"error",
             IF "error" \in DOMAIN response.job /\ response.job.error # ""
               THEN response.job.error ELSE "Unknown error occurred",
             result>>
    ELSE display

\* The three state setters; on an unmounted component they change nothing.
SetDisplay(d) ==
    /\ loadingState' = IF mounted THEN d[1] ELSE loadingState
    /\ errorMessage' = IF mounted THEN d[2] ELSE errorMessage
    /\ result' = IF mounted THEN d[3] ELSE result

\* handleSubmit up to its fetch of start-scrape.
HandleSubmit(form) ==
    /\ mounted
    /\ loadingState = "idle"
    /\ issued < MaxJobs
    /\ SetDisplay(<<"creating", "", null>>)
    /\ fetches' = fetches \cup {SubmitFetch(form)}
    /\ UNCHANGED <<mounted, abortControllerRef, aborted, pollingIntervalRef, timers,
                   seenTerminal, seenFailure>>
    /\ UNCHANGED <<store, triggers, now, apiVars>>
    /\ UNCHANGED <<workerVars, syncVars>>

\* The route answers the page's start-scrape request.
ServeSubmit(f, storeOk) ==
    /\ f \in fetches
    /\ f.kind = "submit"
    /\ ~Answered(f)
    /\ StartScrape(f.body, storeOk)
    /\ fetches' = (fetches \ {f}) \cup {[f EXCEPT !.res = apiRes']}
    /\ UNCHANGED <<mounted, display, abortControllerRef, aborted, pollingIntervalRef,
                   timers, seenTerminal, seenFailure>>

\* handleSubmit after its fetch: the error of a non-OK answer, or
\* pollJobStatus up to the fetch of its first poll.
SubmitDeliver(f) ==
    /\ f \in fetches
    /\ f.kind = "submit"
    /\ Answered(f)
    /\ IF f.res.status # 201
         THEN /\ SetDisplay(<<"error", SubmitError(f.res), result>>)
              /\ fetches' = fetches \ {f}
              /\ UNCHANGED abortControllerRef
         ELSE /\ SetDisplay(<<"scraping", errorMessage, result>>)
              /\ abortControllerRef' = f.res.jobId
              /\ fetches' = (fetches \ {f}) \cup {PollFetch(f.res.jobId, TRUE)}
    /\ UNCHANGED <<mounted, aborted, pollingIntervalRef, timers, seenTerminal, seenFailure>>
    /\ UNCHANGED <<store, triggers, now, apiVars>>
    /\ UNCHANGED <<workerVars, syncVars>>

\* The interval fires: poll sends a check-job.  With an aborted signal the
\* fetch rejects at once and poll changes nothing.
PollTick(id) ==
    /\ id \in timers
    /\ id \notin aborted
    /\ Cardinality(PollsInFlight) < MaxInflight
    /\ fetches' = fetches \cup {PollFetch(id, FALSE)}
    /\ UNCHANGED <<mounted, display, abortControllerRef, aborted, pollingIntervalRef,
                   timers, seenTerminal, seenFailure>>
    /\ UNCHANGED <<store, triggers, now, apiVars>>
    /\ UNCHANGED <<workerVars, syncVars>>

\* The route answers a check-job of the page.
ServePoll(f, storeOk) ==
    /\ f \in fetches
    /\ f.kind = "poll"
    /\ ~Answered(f)
    /\ CheckJob([id |-> f.session], storeOk)
    /\ fetches' = (fetches \ {f}) \cup {[f EXCEPT !.res = apiRes']}
    /\ UNCHANGED <<mounted, display, abortControllerRef, aborted, pollingIntervalRef,
                   timers, seenTerminal, seenFailure>>

\* poll after its fetch; after the first poll pollJobStatus goes on to
\* setInterval.
PollDeliver(f) ==
    /\ f \in fetches
    /\ f.kind = "poll"
    /\ Answered(f)
    /\ SetDisplay(Shown(f.res))
    /\ fetches' = fetches \ {f}
    /\ timers' = (IF StopsPolling(f.res) THEN ClearInterval(timers) ELSE timers)
                    \cup (IF f.first THEN {f.session} ELSE {})
    /\ pollingIntervalRef' = IF f.first THEN f.session ELSE pollingIntervalRef
    /\ seenTerminal' = IF f.res.status = 200 /\ f.res.job.status \in {"complete", "error"}
                         THEN seenTerminal \cup {f.session} ELSE seenTerminal
    /\ seenFailure' = IF f.res.status # 200
                        THEN seenFailure \cup {f.session} ELSE seenFailure
    /\ UNCHANGED <<mounted, abortControllerRef, aborted>>
    /\ UNCHANGED <<store, triggers, now, apiVars>>
    /\ UNCHANGED <<workerVars, syncVars>>

\* abort() and clearInterval of handleReset and of the unmount cleanup: the
\* polls in flight on the controller reject with AbortError, which poll
\* ignores; pollJobStatus, if it was awaiting its first poll, then goes on to
\* setInterval.
Cancel ==
    LET rejected == {f \in PollsInFlight : f.session = abortControllerRef}
        resumed == \E f \in rejected : f.first
    IN  /\ aborted' = aborted \cup ({abortControllerRef} \ {0})
        /\ fetches' = fetches \ rejected
        /\ timers' = ClearInterval(timers)
                        \cup (IF resumed THEN {abortControllerRef} ELSE {})
        /\ pollingIntervalRef' = IF resumed THEN abortControllerRef
                                            ELSE pollingIntervalRef
        /\ UNCHANGED <<abortControllerRef, seenTerminal, seenFailure>>

\* handleReset: its buttons are rendered with the error and with the result.
HandleReset ==
    /\ mounted
    /\ loadingState = "error" \/ (loadingState = "complete" /\ result # null)
    /\ SetDisplay(<<"idle", "", null>>)
    /\ Cancel
    /\ UNCHANGED mounted
    /\ UNCHANGED <<store, triggers, now, apiVars>>
    /\ UNCHANGED <<workerVars, syncVars>>

\* The cleanup of the effect: the page is left.
Unmount ==
    /\ mounted
    /\ mounted' = FALSE
    /\ Cancel
    /\ UNCHANGED display
    /\ UNCHANGED <<store, triggers, now, apiVars>>
    /\ UNCHANGED <<workerVars, syncVars>>

(***************************************************************************)
(* POST /api/analyze, the synchronous endpoint.  One build filters the     *)
(* reviews by the request's course; the other two pass them all on.        *)
(***************************************************************************)
\* Request bodies of /api/analyze: a required field missing or empty, and
\* full requests without a course, with an empty one, and with courses
\* that match some, all or none of the course names below.
AnalyzeBodies ==
    { [university |-> <<"T">>],
      [professorName |-> <<"J">>, course |-> <<"c">>],
      [professorName |-> <<>>, university |-> <<"T">>],
      [professorName |-> <<"J">>, university |-> <<>>],
      [professorName |-> <<"J">>, university |-> <<"T">>],
      [professorName |-> <<"J">>, university |-> <<"T">>, course |-> <<>>],
      [professorName |-> <<"J">>, university |-> <<"T">>, course |-> <<"c", "S">>],
      [professorName |-> <<"J">>, university |-> <<"T">>, course |-> <<"M">>,
       userQuestion |-> <<"q">>],
      [professorName |-> <<"J">>, university |-> <<"T">>, course |-> <<"s", "c">>] }

\* Reviews as the endpoint reads them, the course a sequence of characters.
CourseReviews ==
    { [rating |-> 4, difficulty |-> 3, course |-> <<"C", "S">>],
      [rating |-> 5, difficulty |-> 0, course |-> <<"m", "c", "s">>],
      [rating |-> 1, difficulty |-> 5, course |-> <<>>] }

\* What scrapeProfessor can resolve with: up to MaxExtracted reviews.
CourseResults ==
    { [professorInfo |-> ProfessorInfo(r), reviews |-> r] :
        r \in UNION {[1..k -> CourseReviews] : k \in 0..MaxExtracted} }

\* String.prototype.toLowerCase on the characters in use.
LowerChar(c) ==
    CASE c = "C" -> "c"
      [] c = "S" -> "s"
      [] c = "M" -> "m"
      [] OTHER -> c

ToLowerCase(str) == [i \in 1..Len(str) |-> LowerChar(str[i])]

\* String.prototype.includes: needle occurs in str at some position.
Includes(str, needle) ==
    \E i \in 0..(Len(str) - Len(needle)) : SubSeq(str, i + 1, i + Len(needle)) = needle

\* reviews.filter(review => review.course.toLowerCase().includes(
\* course.toLowerCase())).
FilterByCourse(revs, course) ==
    SelectSeq(revs, LAMBDA review :
        Includes(ToLowerCase(review.course), ToLowerCase(course)))

\* The request arrives; a missing or empty required field is answered 400,
\* otherwise scrapeProfessor is called and awaited.
AnalyzeRequest(build, body) ==
    /\ serverPc = "idle"
    /\ requests < MaxRequests
    /\ requests' = requests + 1
    /\ serverBuild' = build
    /\ reqBody' = body
    /\ filteredReviews' = <<>>
    /\ serverScraperResult' = null
    /\ IF ~Truthy(body, "professorName") \/ ~Truthy(body, "university")
         THEN /\ serverRes' = [route |-> "analyze", status |-> 400, success |-> FALSE,
                               error |-> "Missing required fields"]
              /\ UNCHANGED <<serverPc, scraperCalled>>
         ELSE /\ serverRes' = NoResponse
              /\ scraperCalled' = scraperCalled + 1
              /\ serverPc' = "scrape"
    /\ UNCHANGED analyzerArgs
    /\ UNCHANGED <<pipelineVars, scraperVars>>

\* The course filter whose empty result is passed on to the analyzer.
AnalyzeScraped_PassesEmpty(scraped) ==
    /\ serverPc = "scrape"
    /\ serverScraperResult' = scraped
    /\ IF Len(scraped.reviews) = 0
         THEN /\ serverRes' = [route |-> "analyze", status |-> 404, success |-> FALSE,
                               error |-> "No reviews found for this professor"]
              /\ serverPc' = "idle"
              /\ UNCHANGED <<filteredReviews, analyzerArgs>>
         ELSE /\ filteredReviews' =
                    IF serverBuild = "filter" /\ Truthy(reqBody, "course")
                      THEN FilterByCourse(scraped.reviews, reqBody.course)
                      ELSE scraped.reviews
              /\ analyzerArgs' = analyzerArgs \cup {filteredReviews'}
              /\ serverPc' = "analyze"
              /\ UNCHANGED serverRes
    /\ UNCHANGED <<reqBody, requests, scraperCalled, serverBuild>>
    /\ UNCHANGED <<pipelineVars, scraperVars>>

\* scrapeProfessor resolves: no reviews is answered 404; the build with the
\* filter keeps the reviews of the course and answers 404 when none is left;
\* otherwise analyzeWithAI is called with the reviews kept and awaited.
AnalyzeScraped(scraped) ==
    /\ serverPc = "scrape"
    /\ serverScraperResult' = scraped
    /\ IF Len(scraped.reviews) = 0
         THEN /\ serverRes' = [route |-> "analyze", status |-> 404, success |-> FALSE,
                               error |-> "No reviews found for this professor"]
              /\ serverPc' = "idle"
              /\ UNCHANGED <<filteredReviews, analyzerArgs>>
         ELSE /\ filteredReviews' =
                    IF serverBuild = "filter" /\ Truthy(reqBody, "course")
                      THEN FilterByCourse(scraped.reviews, reqBody.course)
                      ELSE scraped.reviews
              /\ IF serverBuild = "filter" /\ Truthy(reqBody, "course")
                    /\ Len(filteredReviews') = 0
                   THEN /\ serverRes' = [route |-> "analyze", status |-> 404,
                                         success |-> FALSE,
                                         error |-> "No reviews found for course"]
                        /\ serverPc' = "idle"
                        /\ UNCHANGED analyzerArgs
                   ELSE /\ analyzerArgs' = analyzerArgs \cup {filteredReviews'}
                        /\ serverPc' = "analyze"
                        /\ UNCHANGED serverRes
    /\ UNCHANGED <<reqBody, requests, scraperCalled, serverBuild>>
    /\ UNCHANGED <<pipelineVars, scraperVars>>

\* scrapeProfessor rejects: the catch block answers 500.
AnalyzeScrapeFails ==
    /\ serverPc = "scrape"
    /\ serverRes' = [route |-> "analyze", status |-> 500, success |-> FALSE,
                     error |-> ScrapeError]
    /\ serverPc' = "idle"
    /\ UNCHANGED <<reqBody, filteredReviews, requests, scraperCalled, analyzerArgs,
                   serverBuild, serverScraperResult>>
    /\ UNCHANGED <<pipelineVars, scraperVars>>

\* analyzeWithAI resolves: the summary is answered with the reviews kept,
\* their number and the professor's aggregate (the two averages, quotients
\* by that number, are left out of the response).
AnalyzeSummarized(summary) ==
    /\ serverPc = "analyze"
    /\ serverRes' = [route |-> "analyze", status |-> 200, success |-> TRUE,
                     summary |-> summary,
                     stats |-> [totalReviews |-> Len(filteredReviews),
                                wouldTakeAgain |->
                                    serverScraperResult.professorInfo.wouldTakeAgainPercent],
                     reviews |-> filteredReviews,
                     professorInfo |-> serverScraperResult.professorInfo]
    /\ serverPc' = "idle"
    /\ UNCHANGED <<reqBody, filteredReviews, requests, scraperCalled, analyzerArgs,
                   serverBuild, serverScraperResult>>
    /\ UNCHANGED <<pipelineVars, scraperVars>>

\* analyzeWithAI rejects: the catch block answers 500.
AnalyzeAIFails ==
    /\ serverPc = "analyze"
    /\ serverRes' = [route |-> "analyze", status |-> 500, success |-> FALSE,
                     error |-> "Failed to analyze"]
    /\ serverPc' = "idle"
    /\ UNCHANGED <<reqBody, filteredReviews, requests, scraperCalled, analyzerArgs,
                   serverBuild, serverScraperResult>>
    /\ UNCHANGED <<pipelineVars, scraperVars>>

(***************************************************************************)
(* scrapeProfessor, one call.  Each action is the code between two awaits; *)
(* the build with the "Load More" loop and the build that goes to the      *)
(* search URL differ between the navigation and the extraction.            *)
(***************************************************************************)
\* Math.floor(n / d) + 1 in place of Math.ceil(n / d).
Ceil_FloorPlusOne(n, d) == (n \div d) + 1

\* Math.ceil(n / d) for a count n and d > 0.
Ceil(n, d) == (n + d - 1) \div d

\* Extracted pages that have every field, as both builds' schemas accept.
FullPages ==
    { page \in ExtractedPages :
        /\ {"department", "wouldTakeAgainPercent", "difficultyRating"} \subseteq DOMAIN page
        /\ \A i \in 1..Len(page.reviews) :
              {"difficulty", "course", "tags", "thumbsUp", "thumbsDown"}
                  \subseteq DOMAIN page.reviews[i] }

\* The return value of the build with the loop: the fields as extracted.
AsExtracted(page) ==
    [professorInfo |->
        [overallRating |-> page.overallRating,
         totalRatings |-> page.totalRatings,
         wouldTakeAgainPercent |-> page.wouldTakeAgainPercent,
         difficultyRating |-> page.difficultyRating,
         department |-> page.department],
     reviews |-> page.reviews]

\* An exception reaches the catch block, which rethrows with context; the
\* finally block then awaits close() when a Stagehand was created, and
\* otherwise the call ends at once.
ScraperCatch(step) ==
    /\ scraperError' = step
    /\ scrapeOutcome' = [kind |-> "thrown", message |-> ScrapeError, cause |-> step]
    /\ scraperPc' = IF stagehand = "null" THEN "thrown" ELSE "finally"

\* The call up to `await stagehand.init()`: the environment is validated
\* and the Stagehand is constructed.
ScrapeProfessor(build, envOk) ==
    /\ scraperPc = "idle"
    /\ scraperBuild' = build
    /\ IF envOk
         THEN /\ stagehand' = "created"
              /\ scraperPc' = "init"
              /\ UNCHANGED <<scraperError, scrapeOutcome>>
         ELSE /\ ScraperCatch("env")
              /\ UNCHANGED stagehand
    /\ UNCHANGED <<closeCalls, pageData, totalRatings, maxClicks, clickCount, attempts>>
    /\ UNCHANGED <<pipelineVars, serverVars>>

\* stagehand.init() resolves or rejects.
StagehandInit(ok) ==
    /\ scraperPc = "init"
    /\ IF ok
         THEN /\ scraperPc' = "navigate"
              /\ UNCHANGED <<scraperError, scrapeOutcome>>
         ELSE ScraperCatch("init")
    /\ UNCHANGED <<scraperBuild, stagehand, closeCalls, pageData, totalRatings, maxClicks,
                   clickCount, attempts>>
    /\ UNCHANGED <<pipelineVars, serverVars>>

\* PHASE 1 and the waits after it: the professor's page is reached, or a
\* goto, an act or the check of the URL raises.
Navigate(ok) ==
    /\ scraperPc = "navigate"
    /\ IF ok
         THEN /\ scraperPc' = IF scraperBuild = "loadMore" THEN "count" ELSE "extract"
              /\ UNCHANGED <<scraperError, scrapeOutcome>>
         ELSE ScraperCatch("navigate")
    /\ UNCHANGED <<scraperBuild, stagehand, closeCalls, pageData, totalRatings, maxClicks,
                   clickCount, attempts>>
    /\ UNCHANGED <<pipelineVars, serverVars>>

\* Step 2.1: the number of ratings is extracted and the loop is entered,
\* or left at once when its condition is false.
CountRatings(n, ok) ==
    /\ scraperPc = "count"
    /\ IF ok
         THEN /\ totalRatings' = n
              /\ maxClicks' = Ceil(n, 20)
              /\ clickCount' = 0
              /\ scraperPc' = IF 0 < Ceil(n, 20) THEN "loadMore" ELSE "extract"
              /\ UNCHANGED <<scraperError, scrapeOutcome>>
         ELSE /\ ScraperCatch("count")
              /\ UNCHANGED <<totalRatings, maxClicks, clickCount>>
    /\ UNCHANGED <<scraperBuild, stagehand, closeCalls, pageData, attempts>>
    /\ UNCHANGED <<pipelineVars, serverVars>>

\* A failed click that is tried again instead of ending the loop.
ClickLoadMore_TriesAgain(ok) ==
    /\ scraperPc = "loadMore"
    /\ attempts' = attempts + 1
    /\ clickCount' = IF ok THEN clickCount + 1 ELSE clickCount
    /\ scraperPc' = IF clickCount' < maxClicks THEN "loadMore" ELSE "extract"
    /\ UNCHANGED <<scraperBuild, stagehand, closeCalls, scraperError, scrapeOutcome,
                   pageData, totalRatings, maxClicks>>
    /\ UNCHANGED <<pipelineVars, serverVars>>

\* Step 2.2, one iteration: the act resolves, the click is counted and the
\* condition is tested again; or it rejects and the catch block breaks.
ClickLoadMore(ok) ==
    /\ scraperPc = "loadMore"
    /\ attempts' = attempts + 1
    /\ IF ok
         THEN /\ clickCount' = clickCount + 1
              /\ scraperPc' = IF clickCount + 1 < maxClicks THEN "loadMore" ELSE "extract"
         ELSE /\ scraperPc' = "extract"
              /\ UNCHANGED clickCount
    /\ UNCHANGED <<scraperBuild, stagehand, closeCalls, scraperError, scrapeOutcome,
                   pageData, totalRatings, maxClicks>>
    /\ UNCHANGED <<pipelineVars, serverVars>>

\* PHASE 3: stagehand.extract resolves with the page or rejects.
Extract(page, ok) ==
    /\ scraperPc = "extract"
    /\ IF ok
         THEN /\ pageData' = page
              /\ scraperPc' = "close"
              /\ UNCHANGED <<scraperError, scrapeOutcome>>
         ELSE /\ ScraperCatch("extract")
              /\ UNCHANGED pageData
    /\ UNCHANGED <<scraperBuild, stagehand, closeCalls, totalRatings, maxClicks,
                   clickCount, attempts>>
    /\ UNCHANGED <<pipelineVars, serverVars>>

\* CLEANUP in the try block: `await stagehand.close()` resolves and the
\* return statement is reached, or it rejects into the catch block.
CloseInTry(ok) ==
    /\ scraperPc = "close"
    /\ closeCalls' = closeCalls + 1
    /\ IF ok
         THEN /\ scrapeOutcome' =
                    [kind |-> "returned",
                     value |-> IF scraperBuild = "search" THEN ScrapeResult(pageData)
                                                          ELSE AsExtracted(pageData)]
              /\ scraperPc' = "finally"
              /\ UNCHANGED scraperError
         ELSE ScraperCatch("close")
    /\ UNCHANGED <<scraperBuild, stagehand, pageData, totalRatings, maxClicks,
                   clickCount, attempts>>
    /\ UNCHANGED <<pipelineVars, serverVars>>

\* finally: close() is awaited and its rejection is only logged; the call
\* then completes as the try or the catch block decided.
CloseInFinally(ok) ==
    /\ scraperPc = "finally"
    /\ closeCalls' = closeCalls + 1
    /\ scraperPc' = scrapeOutcome.kind
    /\ UNCHANGED <<scraperBuild, stagehand, scraperError, scrapeOutcome, pageData,
                   totalRatings, maxClicks, clickCount, attempts>>
    /\ UNCHANGED <<pipelineVars, serverVars>>

Init ==
    /\ store = <<>>
    /\ issued = 0
    /\ triggers = {}
    /\ now = 0
    /\ nruns = 0
    /\ pc = [w \in Runs |-> "idle"]
    /\ jobId = [w \in Runs |-> 0]
    /\ updatedJob = [w \in Runs |-> null]
    /\ scraperResult = [w \in Runs |-> null]
    /\ aiSummary = [w \in Runs |-> ""]
    /\ completedJob = [w \in Runs |-> null]
    /\ caught = [w \in Runs |-> ""]
    /\ errorJob = [w \in Runs |-> null]
    /\ res = [w \in Runs |-> NoResponse]
    /\ apiRes = NoResponse
    /\ scrapeCalls = [i \in JobIds |-> 0]
    /\ analyzeCalls = [i \in JobIds |-> 0]
    /\ mounted = TRUE
    /\ loadingState = "idle"
    /\ errorMessage = ""
    /\ result = null
    /\ abortControllerRef = 0
    /\ aborted = {}
    /\ pollingIntervalRef = 0
    /\ timers = {}
    /\ fetches = {}
    /\ seenTerminal = {}
    /\ seenFailure = {}
    /\ scraperPc = "idle"
    /\ scraperBuild = "search"
    /\ stagehand = "null"
    /\ closeCalls = 0
    /\ scraperError = ""
    /\ scrapeOutcome = [kind |-> "none"]
    /\ pageData = null
    /\ totalRatings = 0
    /\ maxClicks = 0
    /\ clickCount = 0
    /\ attempts = 0
    /\ serverPc = "idle"
    /\ reqBody = null
    /\ filteredReviews = <<>>
    /\ serverRes = NoResponse
    /\ requests = 0
    /\ scraperCalled = 0
    /\ analyzerArgs = {}
    /\ serverBuild = "filter"
    /\ serverScraperResult = null

Next ==
    \/ \E body \in Bodies, storeOk \in BOOLEAN :
          StartScrape(body, storeOk) /\ UNCHANGED clientVars
    \/ \E query \in Queries, storeOk \in BOOLEAN :
          CheckJob(query, storeOk) /\ UNCHANGED clientVars
    \/ \E id \in JobIds : LoseTrigger(id)
    \/ \E id \in JobIds : DeliverTrigger(id)
    \/ \E body \in RunBodies : RunJobRequest(body)
    \/ \E w \in Runs, storeOk \in BOOLEAN : Load(w, storeOk)
    \/ \E w \in Runs, storeOk \in BOOLEAN : Claim(w, storeOk)
    \/ \E w \in Runs, scraped \in ScraperResults : ScrapeReturns(w, scraped)
    \/ \E w \in Runs : ScrapeThrows(w)
    \/ \E w \in Runs, summary \in Summaries : AnalyzeReturns(w, summary)
    \/ \E w \in Runs : AnalyzeThrows(w)
    \/ \E w \in Runs, storeOk \in BOOLEAN : Commit(w, storeOk)
    \/ \E w \in Runs, storeOk \in BOOLEAN : CatchLoad(w, storeOk)
    \/ \E w \in Runs, storeOk \in BOOLEAN : CatchSet(w, storeOk)

\* All requests within one reading of the clock.
Spec == Init /\ [][Next]_vars

\* The submissions and the worker, without the status checks: check-job
\* writes nothing that the worker or start-scrape reads.
NextPipeline ==
    \/ \E body \in Bodies, storeOk \in BOOLEAN :
          StartScrape(body, storeOk) /\ UNCHANGED clientVars
    \/ \E id \in JobIds : LoseTrigger(id)
    \/ \E id \in JobIds : DeliverTrigger(id)
    \/ \E body \in RunBodies : RunJobRequest(body)
    \/ \E w \in Runs, storeOk \in BOOLEAN : Load(w, storeOk)
    \/ \E w \in Runs, storeOk \in BOOLEAN : Claim(w, storeOk)
    \/ \E w \in Runs, scraped \in ScraperResults : ScrapeReturns(w, scraped)
    \/ \E w \in Runs : ScrapeThrows(w)
    \/ \E w \in Runs, summary \in Summaries : AnalyzeReturns(w, summary)
    \/ \E w \in Runs : AnalyzeThrows(w)
    \/ \E w \in Runs, storeOk \in BOOLEAN : Commit(w, storeOk)
    \/ \E w \in Runs, storeOk \in BOOLEAN : CatchLoad(w, storeOk)
    \/ \E w \in Runs, storeOk \in BOOLEAN : CatchSet(w, storeOk)

SpecPipeline == Init /\ [][NextPipeline]_vars

\* One page and the worker: the jobs are those the page submits, each job is
\* run by its trigger only, and the store answers the worker; the store may
\* fail the requests of the page.
NextClient ==
    \/ \E form \in FormInputs : HandleSubmit(form)
    \/ \E f \in fetches, storeOk \in BOOLEAN : ServeSubmit(f, storeOk)
    \/ \E f \in fetches : SubmitDeliver(f)
    \/ \E id \in JobIds : PollTick(id)
    \/ \E f \in fetches, storeOk \in BOOLEAN : ServePoll(f, storeOk)
    \/ \E f \in fetches : PollDeliver(f)
    \/ HandleReset
    \/ Unmount
    \/ \E id \in JobIds : LoseTrigger(id)
    \/ \E id \in JobIds : DeliverTrigger(id)
    \/ \E w \in Runs : Load(w, TRUE)
    \/ \E w \in Runs : Claim(w, TRUE)
    \/ \E w \in Runs, scraped \in ScraperResults : ScrapeReturns(w, scraped)
    \/ \E w \in Runs : ScrapeThrows(w)
    \/ \E w \in Runs : AnalyzeReturns(w, "Good professor.")
    \/ \E w \in Runs : Commit(w, TRUE)
    \/ \E w \in Runs : CatchLoad(w, TRUE)
    \/ \E w \in Runs : CatchSet(w, TRUE)

SpecClient == Init /\ [][NextClient]_vars

\* The submissions and the worker with the clock advancing between steps, so
\* that the timestamps of one record differ.
NextPipelineClock == NextPipeline \/ Tick

SpecPipelineClock == Init /\ [][NextPipelineClock]_vars

\* One job run once by its trigger with the store available, the scraper
\* returning what it makes of any extracted page.
NextScraper ==
    \/ \E form \in FormInputs :
          issued = 0 /\ StartScrape(form, TRUE) /\ UNCHANGED clientVars
    \/ \E id \in JobIds : DeliverTrigger(id)
    \/ \E w \in Runs : Load(w, TRUE)
    \/ \E w \in Runs : Claim(w, TRUE)
    \/ \E w \in Runs, scraped \in ScrapedPages : ScrapeReturns(w, scraped)
    \/ \E w \in Runs, summary \in Summaries : AnalyzeReturns(w, summary)
    \/ \E w \in Runs : Commit(w, TRUE)

SpecScraper == Init /\ [][NextScraper]_vars

\* The submissions and the worker when every trigger is delivered and the
\* store is available: each job is run once.
NextLive ==
    \/ \E form \in FormInputs : StartScrape(form, TRUE) /\ UNCHANGED clientVars
    \/ \E id \in JobIds : DeliverTrigger(id)
    \/ \E w \in Runs : Load(w, TRUE)
    \/ \E w \in Runs : Claim(w, TRUE)
    \/ \E w \in Runs, scraped \in ScraperResults : ScrapeReturns(w, scraped)
    \/ \E w \in Runs : ScrapeThrows(w)
    \/ \E w \in Runs, summary \in Summaries : AnalyzeReturns(w, summary)
    \/ \E w \in Runs : AnalyzeThrows(w)
    \/ \E w \in Runs : Commit(w, TRUE)
    \/ \E w \in Runs : CatchLoad(w, TRUE)
    \/ \E w \in Runs : CatchSet(w, TRUE)

\* The next step of the request w: the store answers, and a pending
\* collaborator call returns or raises.
RunStep(w) ==
    \/ Load(w, TRUE)
    \/ Claim(w, TRUE)
    \/ \E scraped \in ScraperResults : ScrapeReturns(w, scraped)
    \/ ScrapeThrows(w)
    \/ \E summary \in Summaries : AnalyzeReturns(w, summary)
    \/ AnalyzeThrows(w)
    \/ Commit(w, TRUE)
    \/ CatchLoad(w, TRUE)
    \/ CatchSet(w, TRUE)

\* Every trigger in flight arrives and every request takes its next step:
\* the handler runs to its end on the event loop, and the collaborators are
\* taken to answer.
SpecLive ==
    /\ Init
    /\ [][NextLive]_vars
    /\ \A id \in JobIds : WF_vars(DeliverTrigger(id))
    /\ \A w \in Runs : WF_vars(RunStep(w))

\* The request w has called redis.set and the command has not been answered.
WritePending(w) == pc[w] \in {"claim", "commit", "catchSet"}

\* The record of the pending redis.set of w.
PendingRecord(w) ==
    IF pc[w] = "claim" THEN updatedJob[w]
    ELSE IF pc[w] = "commit" THEN completedJob[w]
    ELSE errorJob[w]

\* The worker has one connection to redis, which answers the commands in
\* the order in which they were sent.  A record is stamped in the block that
\* sends it, so of two pending writes the one with the earlier stamp was
\* sent first: w's write is the next to be answered when no pending write
\* has an earlier stamp.
InOrder(w) ==
    \A v \in Runs \ {w} :
        (WritePending(v) /\ WritePending(w))
          => PendingRecord(w).updatedAt <= PendingRecord(v).updatedAt

\* The submissions and the worker with the clock advancing, the writes of
\* the worker answered in the order in which they were sent.
NextOrdered ==
    \/ \E body \in Bodies, storeOk \in BOOLEAN :
          StartScrape(body, storeOk) /\ UNCHANGED clientVars
    \/ \E id \in JobIds : LoseTrigger(id)
    \/ \E id \in JobIds : DeliverTrigger(id)
    \/ \E body \in RunBodies : RunJobRequest(body)
    \/ \E w \in Runs, storeOk \in BOOLEAN : Load(w, storeOk)
    \/ \E w \in Runs, storeOk \in BOOLEAN : InOrder(w) /\ Claim(w, storeOk)
    \/ \E w \in Runs, scraped \in ScraperResults : ScrapeReturns(w, scraped)
    \/ \E w \in Runs : ScrapeThrows(w)
    \/ \E w \in Runs, summary \in Summaries : AnalyzeReturns(w, summary)
    \/ \E w \in Runs : AnalyzeThrows(w)
    \/ \E w \in Runs, storeOk \in BOOLEAN : InOrder(w) /\ Commit(w, storeOk)
    \/ \E w \in Runs, storeOk \in BOOLEAN : CatchLoad(w, storeOk)
    \/ \E w \in Runs, storeOk \in BOOLEAN : InOrder(w) /\ CatchSet(w, storeOk)
    \/ Tick

SpecOrdered == Init /\ [][NextOrdered]_vars

\* One call of scrapeProfessor, each awaited call resolving or rejecting.
NextSession ==
    \/ \E build \in {"search", "loadMore"}, envOk \in BOOLEAN : ScrapeProfessor(build, envOk)
    \/ \E ok \in BOOLEAN : StagehandInit(ok)
    \/ \E ok \in BOOLEAN : Navigate(ok)
    \/ \E n \in 0..MaxRatings, ok \in BOOLEAN : CountRatings(n, ok)
    \/ \E ok \in BOOLEAN : ClickLoadMore(ok)
    \/ \E page \in FullPages, ok \in BOOLEAN : Extract(page, ok)
    \/ \E ok \in BOOLEAN : CloseInTry(ok)
    \/ \E ok \in BOOLEAN : CloseInFinally(ok)

\* Every awaited call is answered: the call goes on while it has a step.
SpecSession == Init /\ [][NextSession]_vars /\ WF_vars(NextSession)

\* /api/analyze requests, one after the other, in either build.
NextAnalyze ==
    \/ \E build \in {"filter", "plain"}, body \in AnalyzeBodies : AnalyzeRequest(build, body)
    \/ \E scraped \in CourseResults : AnalyzeScraped(scraped)
    \/ AnalyzeScrapeFails
    \/ \E summary \in Summaries : AnalyzeSummarized(summary)
    \/ AnalyzeAIFails

SpecAnalyze == Init /\ [][NextAnalyze]_vars

\* The same with the clock advancing between steps.
NextClock == Next \/ Tick

SpecClock == Init /\ [][NextClock]_vars

(***************************************************************************)
(* Properties.                                                             *)
(***************************************************************************)
Statuses == {"queued", "running", "complete", "error"}

Terminal == {"complete", "error"}

\* The worker has received a /run-job request that names the id.
RunReceived(id) == \E w \in Runs : pc[w] # "idle" /\ jobId[w] = id

\* C1 (as claimed): a check-job that directly follows the 201 of a submit and
\* is answered with the job returns it with status queued, however the steps
\* of the worker triggered by that submit interleave.
C1_QueuedAfterSubmit ==
    [][\A query \in Queries :
          ("id" \in DOMAIN query /\ JustSubmitted(query.id) /\ CheckJob(query, TRUE))
            => (apiRes'.status = 200 /\ apiRes'.job.status = "queued")]_vars

\* C1 (amended): a check-job that directly follows the 201 of a submit and
\* whose store read succeeds never answers 404: it returns the record of
\* that id, whose status is queued if the worker has not yet received a
\* /run-job request for the id, and otherwise queued, running, complete or
\* error.
C1_FoundAfterSubmit ==
    [][\A query \in Queries :
          ("id" \in DOMAIN query /\ JustSubmitted(query.id) /\ CheckJob(query, TRUE))
            => /\ apiRes'.status = 200
               /\ apiRes'.job.jobId = query.id
               /\ apiRes'.job.status \in Statuses
               /\ ~RunReceived(query.id) => apiRes'.job.status = "queued"]_vars

\* The 201 is the last response of the API and the worker has already
\* claimed the job: the check-job sent now is answered with status running.
C1_Witness ==
    \E id \in DOMAIN store :
        /\ JustSubmitted(id)
        /\ RunReceived(id)
        /\ store[id].status = "running"
        /\ CheckJobOutcome(store, [id |-> id], TRUE).job.status = "running"

\* C2: the stored status never regresses: a running job is never queued
\* again, and the record of a complete or error job never changes again.
C2_StatusNeverRegresses ==
    [][\A id \in DOMAIN store :
          /\ id \in DOMAIN store'
          /\ store[id].status = "running" => store'[id].status # "queued"
          /\ store[id].status \in Terminal => store'[id] = store[id]]_vars

\* C3: in every stored job, result is present iff status = complete, error
\* is present iff status = error, and both are absent iff the status is
\* queued or running.
C3_ResultIffComplete ==
    \A id \in DOMAIN store :
        /\ "result" \in DOMAIN store[id] <=> store[id].status = "complete"
        /\ "error" \in DOMAIN store[id] <=> store[id].status = "error"
        /\ ("result" \notin DOMAIN store[id] /\ "error" \notin DOMAIN store[id])
              <=> store[id].status \in {"queued", "running"}

\* C4: no job is complete with an empty review list: a run whose scrape
\* returned zero reviews writes no complete record.
C4_NoEmptyComplete ==
    \A id \in DOMAIN store :
        store[id].status = "complete" => store[id].result.reviews # <<>>

\* The request w is the only /run-job request for its job: no other request
\* names the job and the job's trigger is not in flight.
SingleRun(w) ==
    /\ \A v \in Runs : (v # w /\ pc[v] # "idle") => jobId[v] # jobId[w]
    /\ jobId[w] \notin triggers

\* The request w has answered 200 and no other request names its job.
CompletedAlone(w) ==
    pc[w] = "done" /\ res[w].status = 200 /\ SingleRun(w)

\* C5: for a single run on a job, when the scraper returned a non-empty
\* list R with aggregate A and the analyzer, called with R, A and the job's
\* userQuestion, returned S, the commit stores status complete with a result
\* of exactly R, A and S and answers 200; the record then stays as committed,
\* and check-job returns it.
C5_CommitStoresResult ==
    [][/\ \A w \in Runs :
            /\ (SingleRun(w) /\ scraperResult[w] # null
                    /\ scraperResult[w].reviews # <<>> /\ Commit(w, TRUE))
                 => /\ store'[jobId[w]].status = "complete"
                    /\ store'[jobId[w]].result =
                          [reviews |-> scraperResult[w].reviews,
                           professorInfo |-> scraperResult[w].professorInfo,
                           aiSummary |-> aiSummary[w]]
                    /\ res'[w].status = 200
                    /\ res'[w].reviewCount = Len(scraperResult[w].reviews)
            /\ (CompletedAlone(w) /\ CompletedAlone(w)')
                 => store'[jobId[w]] = store[jobId[w]]
            /\ \A query \in Queries :
                 (CompletedAlone(w) /\ "id" \in DOMAIN query /\ query.id = jobId[w]
                        /\ CheckJob(query, TRUE))
                   => /\ apiRes'.status = 200
                      /\ apiRes'.job = Spread(store[jobId[w]], [jobId |-> jobId[w]])
                      /\ apiRes'.job.status = "complete"]_vars

C5_Witness ==
    \E w \in Runs :
        /\ CompletedAlone(w)
        /\ apiRes.route = "check-job"
        /\ apiRes.status = 200
        /\ apiRes.job.jobId = jobId[w]
        /\ apiRes.job.status = "complete"
        /\ apiRes.job.result.reviews # <<>>
        /\ apiRes.job.result.aiSummary \in Summaries
        /\ "userQuestion" \in DOMAIN apiRes.job

\* C6: each collaborator is called at most once per job, also when /run-job
\* is invoked twice for the same jobId.
C6_CollaboratorsCalledOnce ==
    \A id \in JobIds : scrapeCalls[id] <= 1 /\ analyzeCalls[id] <= 1

\* A required field is missing or the empty string.
MissingOrEmpty(body, f) == f \notin DOMAIN body \/ body[f] = <<>>

\* C7: a submit whose professorName or university is missing or empty
\* answers 400 without a jobId, writes no record, issues no id and sends no
\* trigger.
C7_InvalidRejected ==
    [][\A body \in Bodies, storeOk \in BOOLEAN :
          ((MissingOrEmpty(body, "professorName") \/ MissingOrEmpty(body, "university"))
                /\ StartScrape(body, storeOk))
            => /\ apiRes'.status = 400
               /\ "jobId" \notin DOMAIN apiRes'
               /\ store' = store
               /\ triggers' = triggers
               /\ issued' = issued]_vars

C7_Witness ==
    /\ apiRes.route = "start-scrape"
    /\ apiRes.status = 400
    /\ store # <<>>

\* String.prototype.trim on a sequence of characters.
RECURSIVE TrimStart(_)
TrimStart(s) ==
    IF s # <<>> /\ Head(s) = " " THEN TrimStart(Tail(s)) ELSE s

RECURSIVE TrimEnd(_)
TrimEnd(s) ==
    IF s # <<>> /\ s[Len(s)] = " " THEN TrimEnd(SubSeq(s, 1, Len(s) - 1)) ELSE s

Trim(s) == TrimEnd(TrimStart(s))

\* A required field is missing or empty once trimmed.
BlankAfterTrim(body, f) == f \notin DOMAIN body \/ Trim(body[f]) = <<>>

\* C8: a submit whose professorName or university is empty after trimming
\* answers 400 and creates no record.
C8_BlankRejected ==
    [][\A body \in Bodies, storeOk \in BOOLEAN :
          ((BlankAfterTrim(body, "professorName") \/ BlankAfterTrim(body, "university"))
                /\ StartScrape(body, storeOk))
            => /\ apiRes'.status = 400
               /\ store' = store]_vars

\* C9: a check-job for an id that no submit has issued, when Redis answers,
\* responds 404 and leaves the store as it was; a check-job without an id
\* responds 400 without reading the store, whether or not Redis is reachable.
C9_UnknownIdNotFound ==
    [][\A query \in Queries, storeOk \in BOOLEAN :
          CheckJob(query, storeOk)
            => /\ ("id" \in DOMAIN query /\ query.id > issued /\ storeOk)
                    => (apiRes'.status = 404 /\ "job" \notin DOMAIN apiRes'
                            /\ store' = store)
               /\ "id" \notin DOMAIN query
                    => (apiRes'.status = 400 /\ ~apiRes'.storeRead
                            /\ store' = store)]_vars

C9_Witness ==
    /\ apiRes.route = "check-job"
    /\ apiRes.status = 404
    /\ issued > 0
    /\ \E w \in Runs : pc[w] = "done" /\ res[w].status = 404

\* C10: a check-job during which Redis is unreachable responds with an error
\* (500: neither a job nor 404), and no stored job changes.
C10_StoreDownCheckFails ==
    [][\A query \in Queries :
          ("id" \in DOMAIN query /\ CheckJob(query, FALSE))
            => /\ apiRes'.status = 500
               /\ "job" \notin DOMAIN apiRes'
               /\ store' = store]_vars

C10_Witness ==
    /\ apiRes.route = "check-job"
    /\ apiRes.status = 500
    /\ \E id \in DOMAIN store : store[id].status = "running"


(***************************************************************************)
(* Properties of the worker's /run-job handler and of the trigger.         *)
(***************************************************************************)
\* The position of a /run-job request in its handler, in program order.
PcRank(p) ==
    CASE p = "idle" -> 0
      [] p = "load" -> 1
      [] p = "claim" -> 2
      [] p = "scrape" -> 3
      [] p = "analyze" -> 4
      [] p = "commit" -> 5
      [] p = "catch" -> 6
      [] p = "catchSet" -> 7
      [] p = "done" -> 8

\* The request w stops in this step.
Finishes(w) == pc[w] # "done" /\ pc'[w] = "done"

\* C11: a /run-job whose job is absent when its first redis.get answers
\* responds 404 and is finished at that step: the store and the counts of
\* collaborator calls are as before, and a finished request takes no further
\* step.
C11_AbsentJobNotFound ==
    [][\A w \in Runs :
          /\ (pc[w] = "load" /\ getJob(store, jobId[w]) = null /\ Load(w, TRUE))
               => /\ res'[w].status = 404
                  /\ ~res'[w].success
                  /\ pc'[w] = "done"
                  /\ store' = store
                  /\ scrapeCalls' = scrapeCalls
                  /\ analyzeCalls' = analyzeCalls
          /\ pc[w] = "done" => (pc'[w] = "done" /\ res'[w] = res[w])]_vars

C11_Witness ==
    \E w \in Runs :
        /\ pc[w] = "done"
        /\ res[w].status = 404
        /\ jobId[w] \notin DOMAIN store
        /\ \E id \in DOMAIN store : store[id].status = "complete"

\* C12: when scrapeProfessor throws, analyzeWithAI throws or the commit write
\* fails, the handler enters its catch block with the exception's message;
\* when the catch block's read and write are then accepted by the store, the
\* record is overwritten with status error and that message as its error, and
\* the request is answered 500 with success false and the same message.
C12_FailureStoresError ==
    [][\A w \in Runs :
          /\ ScrapeThrows(w) => (pc'[w] = "catch" /\ caught'[w] = ScrapeError)
          /\ AnalyzeThrows(w) => (pc'[w] = "catch" /\ caught'[w] = AnalyzeError)
          /\ Commit(w, FALSE)
               => (pc'[w] = "catch" /\ caught'[w] = RedisError /\ store' = store)
          /\ (jobId[w] \in DOMAIN store /\ CatchLoad(w, TRUE))
               => (pc'[w] = "catchSet" /\ caught'[w] = caught[w])
          /\ CatchSet(w, TRUE)
               => /\ store'[jobId[w]].status = "error"
                  /\ store'[jobId[w]].error = caught[w]
                  /\ res'[w].status = 500
                  /\ ~res'[w].success
                  /\ res'[w].message = caught[w]]_vars

C12_Witness ==
    \E w \in Runs :
        /\ pc[w] = "done"
        /\ res[w].status = 500
        /\ res[w].message = AnalyzeError
        /\ store[jobId[w]].status = "error"
        /\ store[jobId[w]].error = AnalyzeError

\* C13: a submit whose record is written answers 201 with the new jobId in
\* the step that puts the trigger in flight, so before the trigger has any
\* outcome; it sends exactly one trigger, for the new id, and no step of the
\* system sends a trigger for an id again or changes the answer of the submit
\* once the trigger is lost or delivered.
C13_SubmitIgnoresTrigger ==
    [][/\ \A body \in Bodies :
            (ValidInput(body) /\ StartScrape(body, TRUE))
              => /\ apiRes'.status = 201
                 /\ apiRes'.jobId = issued + 1
                 /\ store'[issued + 1].status = "queued"
                 /\ issued + 1 \notin triggers
                 /\ triggers' = triggers \cup {issued + 1}
       /\ triggers' \ triggers \subseteq {issued'} \ {issued}
       /\ \A id \in JobIds :
            (LoseTrigger(id) \/ DeliverTrigger(id)) => apiRes' = apiRes]_vars

C13_Witness ==
    /\ apiRes.route = "start-scrape"
    /\ apiRes.status = 201
    /\ apiRes.jobId \notin triggers
    /\ \E w \in Runs : jobId[w] = apiRes.jobId /\ pc[w] = "done" /\ res[w].status = 500

\* The trigger of a stored job is gone and the worker has received no
\* /run-job request that names the job.
TriggerLost(id) == id \in DOMAIN store /\ id \notin triggers /\ ~RunReceived(id)

\* C14: while the trigger of a job is lost and no /run-job request names the
\* job, its stored status is queued, no step changes its record and no step
\* sends a trigger for it again.
C14_LostTriggerStaysQueued ==
    [][\A id \in JobIds :
          TriggerLost(id)
            => /\ store[id].status = "queued"
               /\ store'[id] = store[id]
               /\ id \notin triggers']_vars

C14_Witness ==
    \E id \in JobIds :
        /\ TriggerLost(id)
        /\ nruns = MaxRuns
        /\ \A w \in Runs : pc[w] = "done"
        /\ \E other \in DOMAIN store : store[other].status \in Terminal

\* C19: each /run-job request moves through its handler in program order
\* only, so it repeats no step; it calls scrapeProfessor once, when its claim
\* write is applied, and analyzeWithAI once, when the scrape returns; a
\* record is given a terminal status only by the last step of a request; and
\* a request that got as far as its commit or its catch block ends with its
\* own terminal record stored, unless the error could not be written (the
\* catch block's read or write failed, or the job is not in the store).
C19_SingleAttempt ==
    [][/\ \A w \in Runs :
            /\ pc'[w] # pc[w] => PcRank(pc'[w]) > PcRank(pc[w])
            /\ (Finishes(w) /\ pc[w] \in {"commit", "catch", "catchSet"})
                 => \/ /\ pc[w] = "commit"
                       /\ store'[jobId[w]] = completedJob[w]
                       /\ store'[jobId[w]].status = "complete"
                    \/ /\ pc[w] = "catchSet"
                       /\ store'[jobId[w]] = errorJob[w]
                       /\ store'[jobId[w]].status = "error"
                    \/ /\ pc[w] \in {"catch", "catchSet"}
                       /\ store' = store
       /\ \A id \in JobIds :
            /\ scrapeCalls'[id] = scrapeCalls[id] + Cardinality(
                  {w \in Runs : jobId[w] = id /\ pc[w] = "claim" /\ pc'[w] = "scrape"})
            /\ analyzeCalls'[id] = analyzeCalls[id] + Cardinality(
                  {w \in Runs : jobId[w] = id /\ pc[w] = "scrape" /\ pc'[w] = "analyze"})
            /\ (id \in DOMAIN store' /\ store'[id].status \in Terminal
                    /\ (id \notin DOMAIN store \/ store'[id] # store[id]))
                 => \E w \in Runs :
                       jobId[w] = id /\ pc[w] \in {"commit", "catchSet"} /\ Finishes(w)]_vars

C19_Witness ==
    \E w \in Runs :
        /\ SingleRun(w)
        /\ pc[w] = "done"
        /\ res[w].status = 500
        /\ res[w].message = RedisError
        /\ scrapeCalls[jobId[w]] = 1
        /\ analyzeCalls[jobId[w]] = 1
        /\ store[jobId[w]].status = "error"

\* C20: a /run-job answers 200 with success true only in the step in which
\* its commit write of a complete record is applied; it answers 404 exactly
\* when its first read of the store finds no job; once in its catch block it
\* answers 500 with success false whether or not the error record is read or
\* written; the only other answer is the 400 of a request without a jobId.
C20_ResponseMatchesOutcome ==
    [][\A w \in Runs :
          Finishes(w)
            => /\ res'[w].status \in {200, 400, 404, 500}
               /\ res'[w].status = 200
                    => /\ res'[w].success
                       /\ pc[w] = "commit"
                       /\ completedJob[w].status = "complete"
                       /\ store'[jobId[w]] = completedJob[w]
               /\ res'[w].status = 404
                    <=> (pc[w] = "load" /\ getJob(store, jobId[w]) = null)
               /\ res'[w].status = 400 <=> pc[w] = "idle"
               /\ pc[w] \in {"catch", "catchSet"}
                    => (res'[w].status = 500 /\ ~res'[w].success)
               /\ res'[w].status # 200 => ~res'[w].success]_vars

C20_Witness ==
    \E w \in Runs :
        /\ SingleRun(w)
        /\ pc[w] = "done"
        /\ res[w].status = 500
        /\ ~res[w].success
        /\ jobId[w] \in DOMAIN store
        /\ store[jobId[w]].status = "running"


(***************************************************************************)
(* Properties of the page.                                                 *)
(***************************************************************************)
\* pollJobStatus was called for the job and its first poll has returned.
FirstPollReturned(id) ==
    /\ abortControllerRef = id
    /\ \A f \in PollsInFlight : f.session = id => ~f.first

\* The caller has not cancelled the polling of the job.
NotCancelled(id) == mounted /\ id \notin aborted

\* C15: once a poll of a job, its first one included, has read complete or
\* error, the interval of that job is not scheduled and the page sends no
\* further check-job for it.
C15_StopsAfterTerminal ==
    [][\A id \in JobIds :
          /\ id \in seenTerminal' => id \notin timers'
          /\ id \in seenTerminal => ~PollTick(id)]_vars

\* C16: after a reset or an unmount no interval of the cancelled polling is
\* scheduled and none of its check-job requests is in flight, so that no
\* response can reach the page; after an unmount this holds for every
\* polling of the page.
C16_CancelStopsPolling ==
    /\ \A id \in aborted :
          id \notin timers /\ \A f \in PollsInFlight : f.session # id
    /\ ~mounted => (timers = {} /\ PollsInFlight = {})

\* C17 (as claimed): once the first poll has returned, the interval stays
\* scheduled for as long as the stored status of the job is queued or
\* running and the caller has not cancelled.
C17_PollsWhileInProgress ==
    \A id \in DOMAIN store :
        (FirstPollReturned(id) /\ NotCancelled(id)
              /\ store[id].status \in {"queued", "running"})
          => id \in timers

\* C17 (amended): once the first poll has returned, the interval stays
\* scheduled, whatever the stored status and however many polls have been
\* made, until a poll reads complete or error, a poll gets a non-OK response,
\* or the caller cancels: the page has no deadline of its own.
C17_PollsUntilStopped ==
    \A id \in JobIds :
        (FirstPollReturned(id) /\ NotCancelled(id)
              /\ id \notin seenTerminal /\ id \notin seenFailure)
          => id \in timers

\* The trigger was lost: the job stays queued and the page goes on polling.
C17_Witness ==
    \E id \in JobIds :
        /\ TriggerLost(id)
        /\ FirstPollReturned(id)
        /\ NotCancelled(id)
        /\ loadingState = "creating"
        /\ id \in timers
        /\ \E f \in PollsInFlight : f.session = id /\ ~f.first

\* The job's terminal record is final and the page is at rest: no fetch is
\* in flight and no interval is scheduled, the caller has not cancelled and
\* no check-job has failed.
Settled(id) ==
    /\ id \in DOMAIN store
    /\ store[id].status \in Terminal
    /\ id \notin triggers
    /\ \A w \in Runs : jobId[w] = id => pc[w] = "done"
    /\ FirstPollReturned(id)
    /\ NotCancelled(id)
    /\ id \notin seenFailure
    /\ fetches = {}
    /\ id \notin timers

\* C18: when the job has reached its terminal state, every check-job was
\* answered with the job and the caller has not cancelled, a page that has
\* come to rest shows the terminal outcome: the stored result of a complete
\* job, the stored error message of an error job.
C18_SettledShowsOutcome ==
    \A id \in JobIds :
        Settled(id)
          => IF store[id].status = "complete"
               THEN loadingState = "complete" /\ result = store[id].result
               ELSE loadingState = "error" /\ errorMessage = store[id].error


(***************************************************************************)
(* Properties of the record's life cycle.                                  *)
(***************************************************************************)
\* C25: a record gets status complete or error only in a step that finds
\* it with status running: no job goes from queued to a terminal status,
\* also when a store operation of STEP 1 or STEP 2 has failed.
C25_TerminalOnlyFromRunning ==
    [][\A id \in DOMAIN store :
          (store[id].status \notin Terminal /\ store'[id].status \in Terminal)
            => store[id].status = "running"]_vars

\* C26: the claim step makes no test of the stored status: for a job loaded
\* in any status it writes its own record with status running and calls
\* scrapeProfessor; every write of a request stores exactly the record the
\* request built, whatever is stored, so the record stored is always that of
\* the write applied last.
C26_LastWriteWins ==
    [][\A w \in Runs :
          /\ (jobId[w] \in DOMAIN store /\ Load(w, TRUE))
               => (pc'[w] = "claim" /\ updatedJob'[w].status = "running")
          /\ Claim(w, TRUE)
               => /\ store'[jobId[w]] = updatedJob[w]
                  /\ store'[jobId[w]].status = "running"
                  /\ scrapeCalls'[jobId[w]] = scrapeCalls[jobId[w]] + 1
                  /\ pc'[w] = "scrape"
          /\ Commit(w, TRUE) => store'[jobId[w]] = completedJob[w]
          /\ CatchSet(w, TRUE) => store'[jobId[w]] = errorJob[w]]_vars

\* Two requests for one job have both called both collaborators; the first
\* answered 200 and its complete record was replaced by the other's error
\* record.
C26_Witness ==
    \E w, v \in Runs :
        /\ w # v
        /\ jobId[w] = jobId[v]
        /\ pc[w] = "done" /\ res[w].status = 200
        /\ pc[v] = "done" /\ res[v].status = 500
        /\ scrapeCalls[jobId[w]] = 2
        /\ analyzeCalls[jobId[w]] = 2
        /\ store[jobId[w]].status = "error"
        /\ "result" \in DOMAIN store[jobId[w]]

\* The request w, the only one for its job, answered 500 and left the job
\* with status running.
StuckRunning(w) ==
    /\ pc[w] = "done"
    /\ res[w].status = 500
    /\ SingleRun(w)
    /\ jobId[w] \in DOMAIN store
    /\ store[jobId[w]].status = "running"

\* C27: when the catch block's read or write fails, the failure is
\* swallowed: the store is left as it is and the request still answers 500
\* with success false; a job left running this way by the only request for
\* it keeps its record in every step in which no other request names it.
C27_FailedErrorWriteSticks ==
    [][\A w \in Runs :
          /\ (CatchLoad(w, FALSE) \/ CatchSet(w, FALSE))
               => /\ store' = store
                  /\ pc'[w] = "done"
                  /\ res'[w].status = 500
                  /\ ~res'[w].success
          /\ (StuckRunning(w) /\ SingleRun(w)')
               => (store'[jobId[w]] = store[jobId[w]] /\ StuckRunning(w)')]_vars

C27_Witness ==
    \E w \in Runs :
        /\ StuckRunning(w)
        /\ res[w].message = ScrapeError
        /\ nruns = MaxRuns
        /\ \A v \in Runs : pc[v] = "done"
        /\ triggers = {}

\* C28: every trigger in flight names a stored record, so the record is
\* written before its trigger can arrive; records are never removed, and a
\* /run-job whose job is stored finds it when its first read is answered;
\* a submit leaves every record that exists unchanged.
C28_RecordBeforeTrigger ==
    [][/\ triggers' \subseteq DOMAIN store'
       /\ DOMAIN store \subseteq DOMAIN store'
       /\ \A id \in JobIds :
            DeliverTrigger(id)
              => (id \in DOMAIN store /\ jobId'[nruns + 1] = id /\ pc'[nruns + 1] = "load")
       /\ \A w \in Runs :
            (jobId[w] \in DOMAIN store /\ Load(w, TRUE))
              => (pc'[w] = "claim" /\ res'[w] = NoResponse)
       /\ \A body \in Bodies, storeOk \in BOOLEAN :
            StartScrape(body, storeOk)
              => \A id \in DOMAIN store : store'[id] = store[id]]_vars

C28_Witness ==
    \E w \in Runs :
        /\ pc[w] = "claim"
        /\ SingleRun(w)
        /\ jobId[w] = issued
        /\ store[jobId[w]].status = "queued"
        /\ issued = MaxJobs

\* The steps of the handler in program order.
PcEdges ==
    { <<"idle", "load">>, <<"idle", "done">>,
      <<"load", "claim">>, <<"load", "catch">>, <<"load", "done">>,
      <<"claim", "scrape">>, <<"claim", "catch">>,
      <<"scrape", "analyze">>, <<"scrape", "catch">>,
      <<"analyze", "commit">>, <<"analyze", "catch">>,
      <<"commit", "done">>, <<"commit", "catch">>,
      <<"catch", "catchSet">>, <<"catch", "done">>,
      <<"catchSet", "done">> }

\* C29: a request takes its steps in the order load, claim write, scrape,
\* analysis, commit: scrapeProfessor is called only in the step in which
\* the request's running record is stored, analyzeWithAI only in the step
\* in which scrapeProfessor returns a result, and the complete record is
\* written only by a request whose analysis has returned, with that summary
\* and the scraped reviews.
C29_StepsInOrder ==
    [][/\ \A w \in Runs : pc'[w] # pc[w] => <<pc[w], pc'[w]>> \in PcEdges
       /\ \A id \in JobIds :
            /\ scrapeCalls'[id] # scrapeCalls[id]
                 => \E w \in Runs :
                       /\ jobId[w] = id /\ pc[w] = "claim" /\ pc'[w] = "scrape"
                       /\ store'[id] = updatedJob[w]
                       /\ store'[id].status = "running"
            /\ analyzeCalls'[id] # analyzeCalls[id]
                 => \E w \in Runs :
                       /\ jobId[w] = id /\ pc[w] = "scrape" /\ pc'[w] = "analyze"
                       /\ scraperResult'[w] \in ScraperResults
       /\ \A w \in Runs :
            (pc[w] = "commit" /\ Finishes(w))
              => /\ aiSummary[w] \in Summaries
                 /\ scraperResult[w] \in ScraperResults
                 /\ store'[jobId[w]].status = "complete"
                 /\ store'[jobId[w]].result.aiSummary = aiSummary[w]
                 /\ store'[jobId[w]].result.reviews = scraperResult[w].reviews]_vars

C29_Witness ==
    \E w \in Runs :
        /\ pc[w] = "done"
        /\ res[w].status = 200
        /\ res[w].reviewCount = MaxReviews
        /\ scrapeCalls[jobId[w]] = 1
        /\ analyzeCalls[jobId[w]] = 1
        /\ store[jobId[w]].status = "complete"
        /\ store[jobId[w]].result.aiSummary = "Avoid."


\* A step of the worker on the record of the job: the claim write, the
\* commit write or the error write of a request that names it.
WorkerWrites(id) ==
    \E w \in Runs :
        jobId[w] = id /\ pc[w] \in {"claim", "commit", "catchSet"} /\ pc'[w] # pc[w]

\* C21: no step removes a record; an existing record is changed only by a
\* write of the worker; a new record appears only under the id that the
\* submit of that step has just generated; check-job, the steps of the page
\* and its cancellation leave the store, the triggers and every /run-job
\* request as they are.
C21_OnlyWorkerMutates ==
    [][/\ DOMAIN store \subseteq DOMAIN store'
       /\ \A id \in DOMAIN store : store'[id] # store[id] => WorkerWrites(id)
       /\ \A id \in DOMAIN store' \ DOMAIN store :
            id = issued' /\ issued' = issued + 1
       /\ \A query \in Queries, storeOk \in BOOLEAN :
            CheckJob(query, storeOk) => (store' = store /\ triggers' = triggers)
       /\ (HandleReset \/ Unmount \/ (\E id \in JobIds : PollTick(id))
              \/ (\E f \in fetches : PollDeliver(f) \/ SubmitDeliver(f))
              \/ (\E form \in FormInputs : HandleSubmit(form)))
            => UNCHANGED <<store, triggers, workerVars>>]_vars

\* The page was left while its job was running and never saw it finish;
\* the worker has completed the job all the same.
C21_Witness ==
    \E id \in aborted :
        /\ ~mounted
        /\ loadingState = "scraping"
        /\ seenTerminal = {}
        /\ store[id].status = "complete"
        /\ \E w \in Runs : jobId[w] = id /\ pc[w] = "done" /\ res[w].status = 200

\* C23: a submit that stores a record stores it under an id that is larger
\* than every id issued before and is not in the store, and leaves every
\* existing record unchanged: a retry from the page after an error job is
\* such a submit.
C23_FreshId ==
    [][\A body \in Bodies :
          (ValidInput(body) /\ StartScrape(body, TRUE))
            => /\ apiRes'.jobId \notin 1..issued
               /\ apiRes'.jobId \notin DOMAIN store
               /\ DOMAIN store' = DOMAIN store \cup {apiRes'.jobId}
               /\ store'[apiRes'.jobId] = NewJob(body, now)
               /\ \A id \in DOMAIN store : store'[id] = store[id]]_vars

\* The page showed the error of job 1, was reset and has submitted again:
\* the second job has its own record and the failed one is as it was.
C23_Witness ==
    /\ 1 \in aborted
    /\ abortControllerRef = 2
    /\ DOMAIN store = {1, 2}
    /\ store[1].status = "error"
    /\ store[2].status = "queued"
    /\ mounted


\* The fields of a record that submit writes and nothing is to change.
Submitted == {"professorName", "university", "userQuestion", "createdAt"}

SubmittedPart(job) == [f \in Submitted \cap DOMAIN job |-> job[f]]

\* C22: every step leaves professorName, university, userQuestion (present
\* or absent) and createdAt of every stored record as they are, and a record
\* enters the store with the values of its submit; so in every state they
\* are those that submit wrote.
C22_SubmittedFieldsKept ==
    [][/\ \A id \in DOMAIN store :
            id \in DOMAIN store' /\ SubmittedPart(store'[id]) = SubmittedPart(store[id])
       /\ \A id \in DOMAIN store' \ DOMAIN store :
            \E body \in Bodies :
                /\ ValidInput(body)
                /\ StartScrape(body, TRUE)
                /\ SubmittedPart(store'[id]) = SubmittedPart(NewJob(body, now))]_vars

\* Two requests for one job, the first having completed it and the second
\* having overwritten it with an error record at a later reading of the
\* clock: the record still has the creation time and the question of submit.
C22_Witness ==
    \E id \in DOMAIN store :
        /\ store[id].status = "error"
        /\ "result" \in DOMAIN store[id]
        /\ store[id].createdAt = 0
        /\ store[id].updatedAt = MaxClock
        /\ "userQuestion" \in DOMAIN store[id]
        /\ Cardinality({w \in Runs : jobId[w] = id /\ pc[w] = "done"}) = 2


(***************************************************************************)
(* Properties of the scraper's return value.                               *)
(***************************************************************************)
OptionalOfReview == {"difficulty", "course", "tags", "thumbsUp", "thumbsDown"}

OptionalOfPage == {"wouldTakeAgainPercent", "difficultyRating", "department"}

\* The documented default of an optional field.
DefaultOf(f) ==
    IF f \in {"course", "department"} THEN "Not specified"
    ELSE IF f = "tags" THEN <<>>
    ELSE 0

\* out has exactly the fields named, each with the value of the extracted
\* object where that has the field and with the default where it has not.
Defaulted(extracted, out, required, optional) ==
    /\ DOMAIN out = required \cup optional
    /\ \A f \in required : out[f] = extracted[f]
    /\ \A f \in optional :
          out[f] = IF f \in DOMAIN extracted THEN extracted[f] ELSE DefaultOf(f)

\* C24: for every extracted page, with whatever optional fields missing,
\* scrapeProfessor returns a value, and the value has as many reviews as the
\* page, in the same order, every review and the aggregate with the present
\* fields unchanged and each missing optional field at its default.
C24_OptionalFieldsDefaulted ==
    [][\A w \in Runs, page \in ExtractedPages :
          ScrapeReturns(w, ScrapeResult(page))
            => /\ DOMAIN scraperResult'[w] = {"professorInfo", "reviews"}
               /\ Defaulted(page, scraperResult'[w].professorInfo,
                            {"overallRating", "totalRatings"}, OptionalOfPage)
               /\ Len(scraperResult'[w].reviews) = Len(page.reviews)
               /\ \A i \in 1..Len(page.reviews) :
                     Defaulted(page.reviews[i], scraperResult'[w].reviews[i],
                               {"rating", "date", "comment"}, OptionalOfReview)]_vars

\* A job completed from a page without aggregates whose first card had only
\* the required fields and whose second card had an empty course and zero
\* counts: the stored reviews are the defaulted card followed by the second
\* card as it was.
C24_Witness ==
    \E id \in DOMAIN store :
        /\ store[id].status = "complete"
        /\ store[id].result.professorInfo.department = "Not specified"
        /\ store[id].result.professorInfo.wouldTakeAgainPercent = 0
        /\ Len(store[id].result.reviews) = 2
        /\ store[id].result.reviews[1] = Review
        /\ store[id].result.reviews[2].course = ""
        /\ store[id].result.reviews[2].comment = ""


(***************************************************************************)
(* Progress of a job.                                                      *)
(***************************************************************************)
\* The request w waits for scrapeProfessor or analyzeWithAI.
AwaitsCollaborator(w) == pc[w] \in {"scrape", "analyze"}

\* C30: with every trigger delivered, the store available and every
\* collaborator call returning or raising, every stored job eventually has
\* status complete or error; and the worker has no deadline: as long as the
\* only request of a job waits for a collaborator, every step leaves the
\* job's record as it is, with status running.
C30_EventuallyTerminal ==
    /\ \A id \in JobIds :
          (id \in DOMAIN store) ~> (id \in DOMAIN store /\ store[id].status \in Terminal)
    /\ [][\A w \in Runs :
             (AwaitsCollaborator(w) /\ pc'[w] = pc[w] /\ SingleRun(w))
               => /\ store[jobId[w]].status = "running"
                  /\ store'[jobId[w]] = store[jobId[w]]]_vars

\* Both jobs were submitted, run by their triggers and have ended, one
\* complete and one with an error.
C30_Witness ==
    /\ DOMAIN store = JobIds
    /\ \E id \in JobIds : store[id].status = "complete"
    /\ \E id \in JobIds : store[id].status = "error"
    /\ \A w \in Runs : pc[w] = "done"
    /\ triggers = {}


(***************************************************************************)
(* Properties of overlapping polls.                                        *)
(***************************************************************************)
\* The page shows the outcome of the job it is polling.
ShowsOutcome ==
    /\ mounted
    /\ loadingState \in {"complete", "error"}
    /\ abortControllerRef \notin aborted

\* C31: once the page shows complete or error for its job, the response of
\* a poll of that job that is processed later leaves the page showing
\* complete or error.
C31_OutcomeNotReverted ==
    [][\A f \in fetches :
          (ShowsOutcome /\ f.session = abortControllerRef /\ PollDeliver(f))
            => loadingState' \in {"complete", "error"}]_vars


\* The page shows the failure of a poll of the job it is polling.
ShowsPollFailure ==
    /\ mounted
    /\ loadingState = "error"
    /\ errorMessage = "Failed to check job status"
    /\ abortControllerRef \in seenFailure
    /\ abortControllerRef \notin aborted

\* C32: when a poll of the page gets an answer that is not OK, the page
\* shows the error state with the message 'Failed to check job status' and no
\* interval is left running for the job, also when the poll is the first
\* one; and the page showing the failure goes on showing it in every step
\* but a reset.
C32_FailedPollStops ==
    [][/\ \A f \in fetches :
            (mounted /\ PollDeliver(f) /\ f.res.status # 200)
              => /\ loadingState' = "error"
                 /\ errorMessage' = "Failed to check job status"
                 /\ f.session \notin timers'
       /\ (ShowsPollFailure /\ ~HandleReset /\ ~Unmount) => ShowsPollFailure']_vars


(***************************************************************************)
(* Properties of a submit whose write fails.                               *)
(***************************************************************************)
\* C33: a valid submit whose setJob fails answers 500 without a jobId, and
\* leaves the store, the triggers and the /run-job requests as they are; a
\* step that sends a trigger is a submit that has stored the queued record
\* of that job and answers 201 with its id.
C33_FailedWriteNoTrigger ==
    [][/\ \A body \in Bodies :
            (ValidInput(body) /\ StartScrape(body, FALSE))
              => /\ apiRes'.status = 500
                 /\ "jobId" \notin DOMAIN apiRes'
                 /\ triggers' = triggers
                 /\ store' = store
                 /\ nruns' = nruns
       /\ \A id \in triggers' \ triggers :
            /\ id \notin DOMAIN store
            /\ id \in DOMAIN store'
            /\ store'[id].status = "queued"
            /\ apiRes' = [route |-> "start-scrape", status |-> 201, jobId |-> id]]_vars

\* The first submit failed on its write and the second one has just
\* succeeded: the only record and the only trigger are those of the second.
C33_Witness ==
    /\ issued = 2
    /\ DOMAIN store = {2}
    /\ triggers = {2}
    /\ nruns = 0
    /\ apiRes = [route |-> "start-scrape", status |-> 201, jobId |-> 2]


(***************************************************************************)
(* Properties of the timestamps.                                           *)
(***************************************************************************)
\* The time of the last write of a record: updatedAt, or createdAt for a
\* record that submit wrote and no request has overwritten.
LastWritten(job) ==
    IF "updatedAt" \in DOMAIN job THEN job.updatedAt ELSE job.createdAt

ScraperEnded == scraperPc \in {"returned", "thrown"}

\* A created Stagehand has had close() called by the end of the call.
ClosedByTheEnd == (ScraperEnded /\ stagehand = "created") => closeCalls >= 1

\* C34: when scrapeProfessor has returned or thrown and a Stagehand was
\* created, close() has been called on it; and an exception raised by
\* close() is never what the call throws.
C34_SessionClosed ==
    /\ ClosedByTheEnd
    /\ (ScraperEnded /\ scrapeOutcome.kind = "thrown") => scrapeOutcome.cause # "close"

NoneOfCourse(revs, course) ==
    \A i \in 1..Len(revs) :
        ~Includes(ToLowerCase(revs[i].course), ToLowerCase(course))

\* C36: analyzeWithAI is never called with an empty review list; a scrape
\* with no reviews, and in the build with the filter a course that none of
\* the reviews is of, is answered 404 without a call of analyzeWithAI; and
\* a request without professorName or university is answered 400 without
\* a call of scrapeProfessor.
C36_NeverAnalyzesNothing ==
    /\ [](<<>> \notin analyzerArgs)
    /\ [][/\ \A scraped \in CourseResults :
                (/\ AnalyzeScraped(scraped)
                 /\ \/ scraped.reviews = <<>>
                    \/ /\ serverBuild = "filter"
                       /\ Truthy(reqBody, "course")
                       /\ NoneOfCourse(scraped.reviews, reqBody.course))
                  => /\ serverRes'.status = 404
                     /\ serverPc' = "idle"
                     /\ analyzerArgs' = analyzerArgs
          /\ \A build \in {"filter", "plain"}, body \in AnalyzeBodies :
                (/\ AnalyzeRequest(build, body)
                 /\ ~({"professorName", "university"} \subseteq DOMAIN body))
                  => /\ serverRes'.status = 400
                     /\ serverPc' = "idle"
                     /\ scraperCalled' = scraperCalled]_vars

\* The build with the filter has scraped two reviews, none of the course
\* asked for, and answered 404; the analyzer was never called.
C36_Witness ==
    /\ serverBuild = "filter"
    /\ serverRes.route = "analyze"
    /\ serverRes.status = 404
    /\ Truthy(reqBody, "course")
    /\ serverScraperResult # null
    /\ Len(serverScraperResult.reviews) = 2
    /\ analyzerArgs = {}
    /\ scraperCalled = 1

=============================================================================
